---- MODULE Spec2Model ----
(***************************************************************************)
(* Model of the M-Pesa unified API: the six orchestrators (services), the  *)
(* hybrid third_party_reference resolution of the three payment services,  *)
(* the outbound gateway client and the response-code table.                *)
(*                                                                         *)
(* Requests are coroutines on one asyncio event loop.  A coroutine runs    *)
(* without interruption between two suspension points; the orchestrators   *)
(* contain none (asyncio.create_task schedules, it does not suspend), so   *)
(* one invocation runs from its first statement to its return before any   *)
(* other coroutine is resumed.  The steps of an invocation are nevertheless*)
(* separate actions, so that the order of its effects is observable.       *)
(***************************************************************************)
EXTENDS Integers, Sequences, FiniteSets, TLC

(***************************************************************************)
(* Bounds of the model.                                                    *)
(***************************************************************************)
\* wall-clock seconds are 0..MaxClock (datetime.now() at one-second resolution)
MaxClock == 1
\* number of orchestrator invocations in one behaviour
MaxCalls == 2
\* records handed to a DatabaseService followed alone
MaxRegistos == 3

\* values of uuid.uuid4().hex[:8] that the model draws from
Rand == {"a1b2c3d4", "deadbeef"}
\* coroutines (request tasks) of the event loop
Coroutines == 1..2

(***************************************************************************)
(* Operation families.                                                     *)
(***************************************************************************)
CreationFamilies == {"c2b", "b2c", "b2b"}
QueryFamilies == {"query_customer", "query_transaction", "reversal"}
Families == CreationFamilies \cup QueryFamilies

(***************************************************************************)
(* Third-party references.  A reference is a string; the model keeps the   *)
(* three parts of the generated format f"{prefix}_{timestamp}_{random}"    *)
(* apart as a triple (the format is fixed-width, hence injective).  A      *)
(* client may send any string of 1..50 characters: a literal of its own,   *)
(* or a string of the generated format (for instance a reference that an   *)
(* earlier response returned to it).                                       *)
(***************************************************************************)
\* third_party_reference omitted (None)
NoToken == <<"", 0, "">>
Literal(s) == <<s, 0, "">>
Literals == {Literal("INVOICE_1")}

\* the prefix each service formats its generated references with
Prefix(fam) ==
    CASE fam = "c2b" -> "mpesa"
      [] fam = "b2c" -> "b2c"
      [] fam = "b2b" -> "b2b"
      [] OTHER -> ""

\* _gerar_third_party_reference: f"mpesa_{timestamp}_{parte_aleatoria}"; the
\* reference is not compared with the used-set
gerar_third_party_reference(fam, now, parte_aleatoria) == <<Prefix(fam), now, parte_aleatoria>>

\* every string a service can generate
GenTokens(fam) == {gerar_third_party_reference(fam, t, r) : t \in 0..MaxClock, r \in Rand}
\* a string of the generated format that a client sends as its own reference
ClientGen(fam) == {gerar_third_party_reference(fam, 0, "a1b2c3d4")}
\* the third_party_reference values a client sends: optional for a payment
\* service, required by the query and reversal services
ClientTokens(fam) ==
    IF fam \in CreationFamilies THEN {NoToken} \cup Literals \cup ClientGen(fam) ELSE Literals

\* the values the requests sent to a router carry: the reference omitted or
\* a literal (the service instance of a request is new, so a reference of
\* the generated format is handled like any other string)
RouterTokens(fam) == ClientTokens(fam) \ ClientGen(fam)

\* _verificar_referencia_unica
verificar_referencia_unica(usadas, third_party_ref) == third_party_ref \notin usadas

\* mutant: the mapping is not stored
armazenar_nada(usadas, third_party_ref) == usadas
\* _armazenar_mapeamento_referencia
armazenar_mapeamento_referencia(usadas, third_party_ref) == usadas \cup {third_party_ref}

\* the branch _obter_third_party_reference takes
RamoResolucao(usadas, ref_cliente) ==
    IF ref_cliente # NoToken
    THEN IF verificar_referencia_unica(usadas, ref_cliente) THEN "cliente" ELSE "substituida"
    ELSE "gerada"

\* mutant: a duplicated client reference is used again
obter_reutiliza_duplicada(fam, usadas, ref_cliente, now, parte_aleatoria) ==
    IF ref_cliente # NoToken THEN ref_cliente
    ELSE gerar_third_party_reference(fam, now, parte_aleatoria)
\* _obter_third_party_reference (hybrid strategy)
obter_third_party_reference(fam, usadas, ref_cliente, now, parte_aleatoria) ==
    IF ref_cliente # NoToken
    THEN IF verificar_referencia_unica(usadas, ref_cliente)
         THEN ref_cliente
         ELSE gerar_third_party_reference(fam, now, parte_aleatoria)
    ELSE gerar_third_party_reference(fam, now, parte_aleatoria)

(***************************************************************************)
(* Response-code table (app/core/mpesa_codes.py).                          *)
(***************************************************************************)
MPESA_RESPONSE_CODES ==
    "INS-0" :> [http_status |-> 201, message |-> "Request processed successfully", success |-> TRUE] @@
    "INS-1" :> [http_status |-> 500, message |-> "Internal Error", success |-> FALSE] @@
    "INS-2" :> [http_status |-> 401, message |-> "Invalid API Key", success |-> FALSE] @@
    "INS-4" :> [http_status |-> 401, message |-> "User is not active", success |-> FALSE] @@
    "INS-5" :> [http_status |-> 401, message |-> "Transaction cancelled by customer", success |-> FALSE] @@
    "INS-6" :> [http_status |-> 401, message |-> "Transaction Failed", success |-> FALSE] @@
    "INS-9" :> [http_status |-> 408, message |-> "Request timeout", success |-> FALSE] @@
    "INS-10" :> [http_status |-> 409, message |-> "Duplicate Transaction", success |-> FALSE] @@
    "INS-13" :> [http_status |-> 400, message |-> "Invalid Shortcode Used", success |-> FALSE] @@
    "INS-14" :> [http_status |-> 400, message |-> "Invalid Reference Used", success |-> FALSE] @@
    "INS-15" :> [http_status |-> 400, message |-> "Invalid Amount Used", success |-> FALSE] @@
    "INS-16" :> [http_status |-> 503, message |-> "Unable to handle the request due to a temporary overloading", success |-> FALSE] @@
    "INS-17" :> [http_status |-> 400, message |-> "Invalid Transaction Reference. Length Should Be Between 1 and 20.", success |-> FALSE] @@
    "INS-18" :> [http_status |-> 400, message |-> "Invalid TransactionID Used", success |-> FALSE] @@
    "INS-19" :> [http_status |-> 400, message |-> "Invalid ThirdPartyReference Used", success |-> FALSE] @@
    "INS-20" :> [http_status |-> 400, message |-> "Not All Parameters Provided. Please try again.", success |-> FALSE] @@
    "INS-21" :> [http_status |-> 400, message |-> "Parameter validations failed. Please try again.", success |-> FALSE] @@
    "INS-22" :> [http_status |-> 400, message |-> "Invalid Operation Type", success |-> FALSE] @@
    "INS-23" :> [http_status |-> 400, message |-> "Unknown Status. Contact M-Pesa Support", success |-> FALSE] @@
    "INS-2001" :> [http_status |-> 400, message |-> "Initiator authentication error.", success |-> FALSE] @@
    "INS-2002" :> [http_status |-> 400, message |-> "Receiver invalid.", success |-> FALSE] @@
    "INS-2006" :> [http_status |-> 422, message |-> "Insufficient balance", success |-> FALSE] @@
    "INS-2051" :> [http_status |-> 400, message |-> "MSISDN invalid.", success |-> FALSE] @@
    "INS-2057" :> [http_status |-> 400, message |-> "Language code invalid.", success |-> FALSE] @@
    "INS-999" :> [http_status |-> 500, message |-> "Unknown M-Pesa error", success |-> FALSE]

\* mutant: a code that is not in the table is looked up as the success code
get_mpesa_code_info_otimista(response_code) ==
    IF response_code \in DOMAIN MPESA_RESPONSE_CODES
    THEN MPESA_RESPONSE_CODES[response_code]
    ELSE MPESA_RESPONSE_CODES["INS-0"]
\* get_mpesa_code_info: dict.get with the INS-999 entry as default
get_mpesa_code_info(response_code) ==
    IF response_code \in DOMAIN MPESA_RESPONSE_CODES
    THEN MPESA_RESPONSE_CODES[response_code]
    ELSE MPESA_RESPONSE_CODES["INS-999"]

(***************************************************************************)
(* Values exchanged with the gateway.  A dict is a function from its keys; *)
(* Nulo stands for Python's None.                                          *)
(***************************************************************************)
Nulo == "<None>"
EmptyDict == <<>>
\* dict.get(key, default)
Get(d, key, default) == IF key \in DOMAIN d THEN d[key] ELSE default
\* mutant: every value counts as true
TruthySempre(v) == TRUE
\* Python truthiness of an optional string
Truthy(v) == v # Nulo /\ v # ""

\* bodies the SDK hands back (result.body): a dict, None, a str holding the
\* JSON text of a dict, a str that is no JSON, a list
BodyDict(d) == [tipo |-> "dict", dados |-> d]
BodyStrJson(d) == [tipo |-> "str", dados |-> d]
BodyStrInvalida == [tipo |-> "str_invalida", dados |-> EmptyDict]
BodyNone == [tipo |-> "none", dados |-> EmptyDict]
BodyList == [tipo |-> "list", dados |-> EmptyDict]

DictOk == [output_ResponseCode |-> "INS-0", output_TransactionID |-> "T1",
           output_ConversationID |-> "CONV_1"]
DictErro == [output_ResponseCode |-> "INS-6", output_ResponseDesc |-> "Falha reportada pelo gateway"]
\* the body of an accepted payment that names no conversation
DictPagamentoAceite == [output_ResponseCode |-> "INS-0", output_TransactionID |-> "T1"]
Bodies == {BodyDict(DictOk), BodyDict(DictErro), BodyDict(EmptyDict), BodyStrJson(DictOk),
           BodyStrInvalida, BodyNone, BodyList, BodyDict(DictPagamentoAceite)}
\* HTTP statuses of a gateway reply
Statuses == {200, 201, 401}
\* what APIRequest(api_context).execute() does: raise, or return a reply
RaiseMsgs == {"Connection refused", "Invalid public key"}
SdkOutcomes ==
    {[tipo |-> "raise", msg |-> m, status_code |-> 0, body |-> BodyNone] : m \in RaiseMsgs}
    \cup {[tipo |-> "reply", msg |-> "", status_code |-> s, body |-> b] : s \in Statuses, b \in Bodies}

\* one gateway outcome for each path of an orchestrator: the SDK raises, a
\* success reply, an error reply, a reply whose body has no .get
SdkResumo ==
    {o \in SdkOutcomes :
        \/ o.tipo = "raise" /\ o.msg = "Connection refused"
        \/ o.status_code = 200 /\ o.body \in {BodyDict(DictOk), BodyList}
        \/ o.status_code = 401 /\ o.body = BodyDict(DictErro)}

\* no SDK call made yet
NoSdk == [tipo |-> "", msg |-> "", status_code |-> 0, body |-> BodyNone]

\* the dict execute_request returns; tem_body says whether it has the key 'body'
NoResult == [success |-> FALSE, status_code |-> 0, tem_body |-> FALSE, body |-> BodyNone, error |-> Nulo]

\* mutant: the exception of the SDK call is not caught
execute_request_propaga(transaction_type, sdk) ==
    IF sdk.tipo = "raise"
    THEN [success |-> FALSE, status_code |-> -1, tem_body |-> FALSE, body |-> BodyNone,
          error |-> "<propagated>"]
    ELSE [success |-> sdk.status_code = 200, status_code |-> sdk.status_code, tem_body |-> TRUE,
          body |-> sdk.body, error |-> Nulo]
\* MpesaClient.execute_request: the reply, or on any exception the dict
\* {"success": False, "error": str(e), "status_code": 500}
execute_request(transaction_type, sdk) ==
    IF sdk.tipo = "raise"
    THEN [success |-> FALSE, status_code |-> 500, tem_body |-> FALSE, body |-> BodyNone,
          error |-> sdk.msg]
    ELSE [success |-> sdk.status_code = 200, status_code |-> sdk.status_code, tem_body |-> TRUE,
          body |-> sdk.body, error |-> Nulo]

(***************************************************************************)
(* The transport execute_request selects.  A port is the name of its       *)
(* setting; a path is the sequence of the parts its f-string concatenates, *)
(* the query string being the parameters it joins.                         *)
(***************************************************************************)
\* self.endpoint of each service
Endpoint(fam) ==
    CASE fam = "b2c" -> "/ipg/v1x/b2cPayment/"
      [] fam = "b2b" -> "/ipg/v1x/b2bPayment/"
      [] fam = "query_customer" -> "/ipg/v1x/queryCustomerName/"
      [] fam = "query_transaction" -> "/ipg/v1x/queryTransactionStatus/"
      [] fam = "reversal" -> "/ipg/v1x/reversal/"
      [] OTHER -> "/ipg/v1x/c2bPayment/singleStage/"

\* str.lower on the transaction types a caller passes
lower(s) ==
    CASE s = "B2C" -> "b2c"
      [] s = "Reversal" -> "reversal"
      [] s = "QUERY_CUSTOMER" -> "query_customer"
      [] s = "REFUND" -> "refund"
      [] OTHER -> s

\* no APIContext built
NoContexto == [port |-> "", method_type |-> "", path |-> <<>>, parameters |-> EmptyDict]

\* mutant: the reversal is sent like a payment
api_context_reversal_post(endpoint, parameters, transaction_type) ==
    LET t == lower(transaction_type) IN
    [port |-> CASE t = "b2c" -> "MPESA_API_PORT_B2C"
                [] t = "b2b" -> "MPESA_API_PORT_B2B"
                [] t = "query_customer" -> "MPESA_API_PORT_QUERY"
                [] t = "query_transaction" -> "MPESA_API_PORT_QUERY_TXN"
                [] t = "reversal" -> "MPESA_API_PORT_REVERSAL"
                [] OTHER -> "MPESA_API_PORT_C2B",
     method_type |-> IF t \in {"query_customer", "query_transaction"} THEN "GET" ELSE "POST",
     path |-> IF t \in {"query_customer", "query_transaction"} /\ DOMAIN parameters # {}
              THEN <<endpoint, "?", parameters>> ELSE <<endpoint>>,
     parameters |-> IF t \in {"query_customer", "query_transaction"} THEN EmptyDict ELSE parameters]

\* the APIContext execute_request builds: port, method, path and added
\* parameters
api_context(endpoint, parameters, transaction_type) ==
    LET t == lower(transaction_type) IN
    [port |-> CASE t = "b2c" -> "MPESA_API_PORT_B2C"
                [] t = "b2b" -> "MPESA_API_PORT_B2B"
                [] t = "query_customer" -> "MPESA_API_PORT_QUERY"
                [] t = "query_transaction" -> "MPESA_API_PORT_QUERY_TXN"
                [] t = "reversal" -> "MPESA_API_PORT_REVERSAL"
                [] OTHER -> "MPESA_API_PORT_C2B",
     method_type |-> CASE t \in {"query_customer", "query_transaction"} -> "GET"
                       [] t = "reversal" -> "PUT"
                       [] OTHER -> "POST",
     path |-> IF t \in {"query_customer", "query_transaction"} /\ DOMAIN parameters # {}
              THEN <<endpoint, "?", parameters>> ELSE <<endpoint>>,
     parameters |-> IF t \in {"query_customer", "query_transaction"} THEN EmptyDict ELSE parameters]

(***************************************************************************)
(* Responses of the orchestrators.  A description is the sequence of the   *)
(* parts its f-string concatenates.                                        *)
(***************************************************************************)
\* the response models (C2BPaymentResponse, B2CPaymentResponse, ...); extra is
\* output_CustomerName or output_ResponseTransactionStatus
Resposta(third_party_ref, codigo, descricao, transaction_id, conversation_id, extra) ==
    [tipo |-> "resposta", third_party_reference |-> third_party_ref, response_code |-> codigo,
     response_description |-> descricao, transaction_id |-> transaction_id,
     conversation_id |-> conversation_id, extra |-> extra, msg |-> ""]
\* an exception raised where a response was to be computed
Excecao(msg) ==
    [tipo |-> "excecao", third_party_reference |-> NoToken, response_code |-> "",
     response_description |-> <<>>, transaction_id |-> Nulo, conversation_id |-> Nulo,
     extra |-> Nulo, msg |-> msg]
NoResposta == Excecao("")

\* the body as the C2B and B2C services decode it: a dict as it is, a str
\* through json.loads (an empty dict when that fails), anything else as it is
dados_corpo_decodificado(body) ==
    CASE body.tipo = "dict" -> body.dados
      [] body.tipo = "str" -> body.dados
      [] OTHER -> EmptyDict

\* the AttributeError of calling .get on a value that is no dict
ErroSemGet(body) ==
    CASE body.tipo = "none" -> "'NoneType' object has no attribute 'get'"
      [] body.tipo = "list" -> "'list' object has no attribute 'get'"
      [] OTHER -> "'str' object has no attribute 'get'"

\* C2BService._processar_resposta_mpesa and B2CService._processar_resposta_mpesa
processar_resposta_c2b(resultado, third_party_ref) ==
    IF ~resultado.tem_body \/ resultado.body.tipo = "none"
    THEN Resposta(third_party_ref, "INS-999", <<"Resposta invalida da M-Pesa (sem body)">>,
                  Nulo, Nulo, Nulo)
    ELSE IF resultado.body.tipo = "list"
    THEN Excecao(ErroSemGet(resultado.body))
    ELSE LET dados_corpo == dados_corpo_decodificado(resultado.body) IN
         IF resultado.success /\ resultado.status_code \in {200, 201}
         THEN LET codigo_resposta == Get(dados_corpo, "output_ResponseCode", "INS-0") IN
              Resposta(third_party_ref, codigo_resposta,
                       <<get_mpesa_code_info(codigo_resposta).message>>,
                       Get(dados_corpo, "output_TransactionID", Nulo),
                       Get(dados_corpo, "output_ConversationID", Nulo), Nulo)
         ELSE LET codigo_resposta == Get(dados_corpo, "output_ResponseCode", "INS-999")
                  descricao_mpesa == Get(dados_corpo, "output_ResponseDesc", Nulo)
              IN Resposta(third_party_ref, codigo_resposta,
                          IF Truthy(descricao_mpesa) THEN <<descricao_mpesa>>
                          ELSE <<get_mpesa_code_info(codigo_resposta).message>>,
                          Get(dados_corpo, "output_TransactionID", Nulo),
                          Get(dados_corpo, "output_ConversationID", Nulo), Nulo)

\* the keys and the default success code each of the other four services reads
ChaveCodigo(fam) == IF fam = "query_customer" THEN "output_ResultCode" ELSE "output_ResponseCode"
ChaveDescricao(fam) == IF fam = "query_customer" THEN "output_ResultDesc" ELSE "output_ResponseDesc"
CodigoSucessoPadrao(fam) == IF fam = "query_customer" THEN "0" ELSE "INS-0"
ChaveExtra(fam) ==
    CASE fam = "query_customer" -> "output_CustomerName"
      [] fam = "query_transaction" -> "output_ResponseTransactionStatus"
      [] OTHER -> "<nenhuma>"
ChaveTransacao(fam) ==
    IF fam \in {"b2b", "reversal"} THEN "output_TransactionID" ELSE "<nenhuma>"

\* B2BService, QueryCustomerService, QueryTransactionService and
\* ReversalService._processar_resposta_mpesa: the body is used with .get as it
\* comes (resultado.get("body", {}) on the error branch)
processar_resposta_b2b(fam, resultado, third_party_ref) ==
    IF resultado.success /\ resultado.status_code = 200
    THEN IF resultado.body.tipo # "dict"
         THEN Excecao(ErroSemGet(resultado.body))
         ELSE LET dados_corpo == resultado.body.dados
                  codigo_resposta == Get(dados_corpo, ChaveCodigo(fam), CodigoSucessoPadrao(fam))
                  padrao == get_mpesa_code_info(codigo_resposta).message
              IN Resposta(third_party_ref, codigo_resposta,
                          IF fam = "b2b" THEN <<padrao>>
                          ELSE <<Get(dados_corpo, ChaveDescricao(fam), padrao)>>,
                          Get(dados_corpo, ChaveTransacao(fam), Nulo),
                          Get(dados_corpo, "output_ConversationID", Nulo),
                          Get(dados_corpo, ChaveExtra(fam), Nulo))
    ELSE IF resultado.tem_body /\ resultado.body.tipo # "dict"
         THEN Excecao(ErroSemGet(resultado.body))
         ELSE LET dados_corpo == IF resultado.tem_body THEN resultado.body.dados ELSE EmptyDict
                  codigo_resposta == Get(dados_corpo, ChaveCodigo(fam), "INS-999")
                  descricao_mpesa == Get(dados_corpo, ChaveDescricao(fam), Nulo)
              IN Resposta(third_party_ref, codigo_resposta,
                          IF Truthy(descricao_mpesa) THEN <<descricao_mpesa>>
                          ELSE <<get_mpesa_code_info(codigo_resposta).message>>,
                          Get(dados_corpo, ChaveTransacao(fam), Nulo),
                          Get(dados_corpo, "output_ConversationID", Nulo),
                          Get(dados_corpo, ChaveExtra(fam), Nulo))

\* _processar_resposta_mpesa of the service of family fam
processar_resposta_mpesa(fam, resultado, third_party_ref) ==
    IF fam \in {"c2b", "b2c"}
    THEN processar_resposta_c2b(resultado, third_party_ref)
    ELSE processar_resposta_b2b(fam, resultado, third_party_ref)

\* the sentinel of the except branch when third_party_ref was never bound
RefErro(fam) ==
    CASE fam = "c2b" -> Literal("ref_erro")
      [] fam = "b2c" -> Literal("b2c_ref_erro")
      [] OTHER -> Literal("b2b_ref_erro")

\* mutant: the except branch always answers with the sentinel reference
resposta_de_excecao_sentinela(ref_erro, erro) ==
    Resposta(Literal("ref_erro"), "INS-999", <<"Erro no servico: ", erro>>, Nulo, Nulo, Nulo)
\* mutant: the except branch raises the exception again
resposta_de_excecao_relanca(ref_erro, erro) == Excecao(erro)
\* the response built by the except branch of an orchestrator
resposta_de_excecao(ref_erro, erro) ==
    Resposta(ref_erro, "INS-999", <<"Erro no servico: ", erro>>, Nulo, Nulo, Nulo)

(***************************************************************************)
(* Provider shortcodes.                                                    *)
(***************************************************************************)
\* settings.MPESA_SERVICE_PROVIDER_CODE, read from the environment
MPESA_SERVICE_PROVIDER_CODE == "171717"
\* the value of the request's service_provider_code (primary_party_code in
\* B2B) when the client leaves the field to the schema
SchemaShortcode(fam) == IF fam = "reversal" THEN "900579" ELSE "171717"
\* the values a client can put there: the C2B request has no such field,
\* the B2B field is required, the others accept null
ClientShortcodes(fam) ==
    CASE fam = "c2b" -> {SchemaShortcode(fam)}
      [] fam = "b2b" -> {SchemaShortcode(fam), "999999"}
      [] OTHER -> {SchemaShortcode(fam), Nulo, "999999"}

\* the parameters an orchestrator sends, as far as the model follows them:
\* the reference and the shortcode
payload_mpesa(fam, third_party_ref, service_provider_code) ==
    CASE fam \in {"c2b", "b2c"} ->
           [input_ThirdPartyReference |-> third_party_ref,
            input_ServiceProviderCode |-> MPESA_SERVICE_PROVIDER_CODE]
      [] fam = "b2b" ->
           [input_ThirdPartyReference |-> third_party_ref,
            input_PrimaryPartyCode |-> service_provider_code]
      [] OTHER ->
           [input_ThirdPartyReference |-> third_party_ref,
            input_ServiceProviderCode |->
                IF Truthy(service_provider_code) THEN service_provider_code ELSE "900579"]

(***************************************************************************)
(* State.                                                                  *)
(***************************************************************************)
VARIABLES
    servico,                 \* the family of the service (or endpoint) the behaviour follows
    clock,                   \* wall-clock second, as datetime.now() reads it
    referencias_utilizadas,  \* _referencias_utilizadas of each service instance
    pc,                      \* position of each request coroutine
    req,                     \* the request each coroutine handles
    loc,                     \* the local variables of each invocation
    hist,                    \* the invocations that have returned, in order
    segue_tarefas,           \* whether the behaviour follows the audit tasks on the event loop
    tarefas,                 \* the event loop's ready queue: tasks created and not yet resumed
    correndo,                \* the task the event loop is running
    dormindo,                \* drain tasks waiting: for the end of a sleep, or for a record
    db,                      \* the DatabaseService of each service instance
    supabase,                \* rows of the table mpesa_transactions
    fallback,                \* lines of logs_transacoes_fallback.json
    levantadas,              \* exceptions registrar_transacao_async let through to its caller
    devolvidas,              \* the responses returned so far, each with what it was computed from
    criadas,                 \* writers created by the callers of a DatabaseService followed alone
    get_suspende             \* whether wait_for suspends the drain on a get that can complete

\* the audit path
auditoria ==
    <<segue_tarefas, tarefas, correndo, dormindo, db, supabase, fallback, levantadas, devolvidas,
      criadas, get_suspende>>
vars == <<servico, clock, referencias_utilizadas, pc, req, loc, hist, auditoria>>

\* service instances: instance 0 lives as long as the process; a request that
\* enters through a router constructs its own (service = C2BService()),
\* numbered like its coroutine
Instances == {0} \cup Coroutines
Instance(c) == IF req[c].via = "router" THEN c ELSE 0

\* x_api_key is the X-API-Key header and valor the amount field of the body
\* (amount, or reversal_amount): <<>> when absent, <<v>> when given
NoReq ==
    [via |-> "", ref_cliente |-> NoToken, service_provider_code |-> Nulo, parceiro |-> 0,
     x_api_key |-> Nulo, valor |-> <<>>]
\* code_info before the router looked the code up
NoInfo == [http_status |-> 0, message |-> "", success |-> FALSE]
NoHttp == [status_code |-> 0, success |-> FALSE, code |-> "", message |-> <<>>, code_info |-> NoInfo]
NoLoc ==
    [third_party_ref |-> NoToken, ref_ligada |-> FALSE, ramo |-> "", gerada_em |-> -1,
     estava_usada |-> FALSE, payload |-> EmptyDict, logs |-> <<>>, enviado |-> <<>>,
     sdk |-> NoSdk, contexto |-> NoContexto, resultado |-> NoResult, resposta |-> NoResposta,
     erro |-> "", http |-> NoHttp]

(***************************************************************************)
(* The audit path.  An orchestrator hands its audit writers to             *)
(* asyncio.create_task; the event loop resumes a task only when the        *)
(* coroutine it is running suspends or returns.  Every service instance    *)
(* owns a DatabaseService.                                                  *)
(***************************************************************************)
\* dados_log before any writer built it
NoDados ==
    [tarefa |-> "", status |-> "", response_code |-> "", third_party_reference |-> NoToken,
     service_provider_code |-> Nulo]
\* no task
NoTarefa ==
    [tipo |-> "", inst |-> 0, chamada |-> 0, dados |-> NoDados, em |-> "", tentativa |-> 0,
     esperas |-> <<>>]
\* the coroutine self._registrar_*_transacao(...) of invocation number chamada
TarefaRegistrar(inst, chamada, dados) ==
    [tipo |-> "registrar", inst |-> inst, chamada |-> chamada, dados |-> dados,
     em |-> "inicio", tentativa |-> 0, esperas |-> <<>>]
\* the coroutine self._processar_fila_logs(): where it stands (em), the record
\* it holds, the index of the for loop of _salvar_com_retry, and the sleeps it
\* made for that record, in tenths of a second
TarefaDreno(inst) ==
    [tipo |-> "dreno", inst |-> inst, chamada |-> 0, dados |-> NoDados,
     em |-> "inicio", tentativa |-> 0, esperas |-> <<>>]
\* mutant: a new task runs before the tasks already ready
create_task_na_frente(prontas, tarefa) == <<tarefa>> \o prontas
\* asyncio.create_task: the task joins the tail of the loop's ready queue
create_task(prontas, tarefa) == Append(prontas, tarefa)

\* DatabaseService.__init__
NovoDb ==
    [fila_logs |-> <<>>, processando |-> FALSE,
     total_logs_processados |-> 0, total_logs_falha |-> 0]
\* _salvar_fallback_local: the line appended to the local file
salvar_fallback_local(dados_transacao, motivo) ==
    [motivo_fallback |-> motivo, dados |-> dados_transacao]

\* what the try block of registrar_transacao_async does: it completes, or
\* the insertion raises
ResultadosFila == {"ok", "excecao"}
\* mutant: registrar_transacao_async without its except branch
registrar_transacao_async_sem_except(d, dados_transacao, resultado_fila) ==
    IF resultado_fila = "ok"
    THEN [db |-> [d EXCEPT !.fila_logs = Append(@, dados_transacao)],
          inicia_dreno |-> ~d.processando, fallback |-> <<>>, levantou |-> FALSE]
    ELSE [db |-> d, inicia_dreno |-> FALSE, fallback |-> <<>>, levantou |-> TRUE]
\* mutant: only the first enqueue of a DatabaseService starts a drain
registrar_transacao_async_sem_reinicio(d, dados_transacao, resultado_fila) ==
    IF resultado_fila = "ok"
    THEN [db |-> [d EXCEPT !.fila_logs = Append(@, dados_transacao)],
          inicia_dreno |-> ~d.processando /\ d.total_logs_processados + d.total_logs_falha = 0,
          fallback |-> <<>>, levantou |-> FALSE]
    ELSE [db |-> d, inicia_dreno |-> FALSE,
          fallback |-> <<salvar_fallback_local(dados_transacao, "erro_fila")>>,
          levantou |-> FALSE]
\* registrar_transacao_async: the record joins the queue and, unless the
\* flag says a drain is running, a drain task is created; an exception is
\* caught and the record goes to the local file
registrar_transacao_async(d, dados_transacao, resultado_fila) ==
    IF resultado_fila = "ok"
    THEN [db |-> [d EXCEPT !.fila_logs = Append(@, dados_transacao)],
          inicia_dreno |-> ~d.processando, fallback |-> <<>>, levantou |-> FALSE]
    ELSE [db |-> d, inicia_dreno |-> FALSE,
          fallback |-> <<salvar_fallback_local(dados_transacao, "erro_fila")>>,
          levantou |-> FALSE]

\* mutant: two attempts
tentativas_max_duas == 1 + 1
\* _salvar_com_retry(dados_transacao, tentativas_max=3)
tentativas_max == 3
\* what one insert().execute() gives: rows, an empty result, or an exception
RespostasSupabase == {"data", "vazio", "excecao"}
\* mutant: the same sleep after every failed attempt
backoff_constante(tentativa) == 5
\* await asyncio.sleep(0.5 * (tentativa + 1)), in tenths of a second
backoff(tentativa) == 5 * (tentativa + 1)
\* whether await asyncio.wait_for(self._fila_logs.get(), timeout=2.0) suspends
\* the drain although a record is queued: before Python 3.12 wait_for wraps
\* the get in a task of its own and waits for it, since 3.12 it awaits it in
\* place.  The interpreter is fixed for a run
SuspensoesDoGet == {FALSE, TRUE}

(***************************************************************************)
(* Program order of an orchestrator.  The payment services resolve and     *)
(* store the reference first; the query and reversal services start at the *)
(* payload.                                                                *)
(***************************************************************************)
\* mutant: the reference is stored after the gateway call
OrdemPagamentoArmazenaDepois ==
    <<"resolve", "payload", "log_inicio", "dispatch", "store", "process", "log_result", "return">>
\* C2BService.process_payment (and B2C, B2B), statements of the try block
OrdemPagamento ==
    <<"resolve", "store", "payload", "log_inicio", "dispatch", "process", "log_result", "return">>
\* mutant: a failed gateway call is sent again
OrdemConsultaRepete ==
    <<"payload", "log_inicio", "dispatch", "dispatch", "process", "log_result", "return">>
\* QueryCustomerService.query_customer_name (and status query, reversal)
OrdemConsulta == <<"payload", "log_inicio", "dispatch", "process", "log_result", "return">>
Ordem(fam) == IF fam \in CreationFamilies THEN OrdemPagamento ELSE OrdemConsulta
\* the statement after position i of the order
Posicao(fam, i) == Ordem(fam)[i]

\* positions at which process_payment suspends (an await that yields to the
\* event loop): there is none
PontosDeSuspensao == {}

\* the event loop is free: no coroutine is in the middle of an invocation and
\* no task is running
LoopLivre ==
    /\ \A d \in Coroutines : pc[d].em \in {"idle", "ready"}
    /\ correndo = NoTarefa
\* coroutine c may run its next statement: every other coroutine is idle,
\* not yet started, or suspended
PodeExecutar(c) ==
    \A d \in Coroutines \ {c} : pc[d].em \in {"idle", "ready"} \cup PontosDeSuspensao

Em(c, p) == pc[c].em = p /\ PodeExecutar(c)
\* move coroutine c to the next statement of its order
Avancar(c) ==
    pc' = [pc EXCEPT ![c] = [em |-> Posicao(servico, pc[c].i + 1), i |-> pc[c].i + 1]]
IrPara(c, p) == pc' = [pc EXCEPT ![c] = [em |-> p, i |-> 0]]

\* the audit path when the process starts
AuditoriaInicial(segue, suspensoes) ==
    /\ segue_tarefas = segue
    /\ get_suspende \in suspensoes
    /\ tarefas = <<>>
    /\ correndo = NoTarefa
    /\ dormindo = <<>>
    /\ db = [i \in Instances |-> NovoDb]
    /\ supabase = <<>>
    /\ fallback = <<>>
    /\ levantadas = <<>>
    /\ devolvidas = <<>>
    /\ criadas = 0

Init ==
    /\ AuditoriaInicial(FALSE, {FALSE})
    /\ servico \in CreationFamilies
    /\ clock = 0
    /\ referencias_utilizadas = [i \in Instances |-> {}]
    /\ pc = [c \in Coroutines |-> [em |-> "idle", i |-> 0]]
    /\ req = [c \in Coroutines |-> NoReq]
    /\ loc = [c \in Coroutines |-> NoLoc]
    /\ hist = <<>>

\* calls begun or finished so far
Chamadas == Len(hist) + Cardinality({c \in Coroutines : pc[c].em # "idle"})

\* the wall clock advances
Tick ==
    /\ clock < MaxClock
    /\ LoopLivre
    /\ clock' = clock + 1
    /\ UNCHANGED <<servico, referencias_utilizadas, pc, req, loc, hist>>
    /\ UNCHANGED auditoria

\* a request for the service arrives and its coroutine is scheduled; the
\* event loop accepts requests only while no coroutine is running
Arrive(c, via, ref_cliente, codigo) ==
    /\ pc[c].em = "idle"
    /\ \A d \in Coroutines : pc[d].em = "idle" => c <= d
    /\ LoopLivre
    /\ Chamadas < MaxCalls
    /\ req' = [req EXCEPT ![c] = [NoReq EXCEPT !.via = via, !.ref_cliente = ref_cliente,
                                               !.service_provider_code = codigo]]
    /\ IrPara(c, "ready")
    /\ UNCHANGED <<servico, clock, referencias_utilizadas, loc, hist>>
    /\ UNCHANGED auditoria

\* mutant: every service works with a resolved reference
RefDaChamadaResolvida(c) == loc[c].third_party_ref
\* the reference the invocation works with: the resolved one in the payment
\* services, the request's own in the query and reversal services
RefDaChamada(c) ==
    IF servico \in CreationFamilies THEN loc[c].third_party_ref ELSE req[c].ref_cliente

\* an audit write handed to asyncio.create_task
\* mutant: the writers record the shortcode of the request
shortcode_do_registo_do_cliente(fam, service_provider_code) == service_provider_code
\* "service_provider_code" of dados_log: the configured shortcode in C2B and
\* B2C, primary_party_code in B2B, the request's field or "900579" elsewhere
shortcode_do_registo(fam, service_provider_code) ==
    CASE fam \in {"c2b", "b2c"} -> MPESA_SERVICE_PROVIDER_CODE
      [] fam = "b2b" -> service_provider_code
      [] OTHER -> IF Truthy(service_provider_code) THEN service_provider_code ELSE "900579"
TarefaLog(tarefa, status, codigo, ref, shortcode) ==
    [tarefa |-> tarefa, status |-> status, response_code |-> codigo, third_party_reference |-> ref,
     service_provider_code |-> shortcode]
\* the status _registrar_resultado_* derives from the response
StatusResultado(fam, resposta) ==
    IF resposta.response_code = (IF fam = "query_customer" THEN "0" ELSE "INS-0")
    THEN "success" ELSE "failed"

\* the invocation coroutine c is running, by its number in the history
NumeroDaChamada(c) == Len(hist) + 1
\* a writer of invocation number k with one of the given statuses was created
\* and the loop has not run it: its record is on no queue yet
PorCorrer(k, estados) ==
    \E i \in 1..Len(tarefas) :
        /\ tarefas[i].tipo = "registrar"
        /\ tarefas[i].chamada = k
        /\ tarefas[i].dados.status \in estados
\* mutant: the orchestrator awaits the writers it created
tarefas_aguardadas_todas(fam) == {"pending", "success", "failed"}
\* the writers, by the status they record, that an orchestrator awaits before
\* it returns: none, the tasks create_task returns are dropped
tarefas_aguardadas(fam) == {}
\* the invocation of coroutine c cannot go on: a task it awaits has not run
Aguarda(c) == PorCorrer(NumeroDaChamada(c), tarefas_aguardadas(servico))

\* asyncio.create_task(writer) in the invocation of coroutine c: the writer is
\* scheduled on the loop and the invocation goes on
Agendar(c, dados) ==
    /\ tarefas' = IF segue_tarefas
                  THEN create_task(tarefas, TarefaRegistrar(Instance(c), NumeroDaChamada(c), dados))
                  ELSE tarefas
    /\ UNCHANGED <<segue_tarefas, criadas, get_suspende, correndo, dormindo, db, supabase, fallback, levantadas,
                   devolvidas>>
\* the response of the invocation of coroutine c, with what it was computed
\* from: the request, the gateway outcome and the resolved reference
Devolvida(c) ==
    [ref_cliente |-> req[c].ref_cliente, sdk |-> loc[c].sdk,
     third_party_ref |-> loc[c].third_party_ref, resposta |-> loc[c].resposta]
\* the response is handed back to the caller
Devolver(c) ==
    /\ devolvidas' = IF segue_tarefas THEN Append(devolvidas, Devolvida(c)) ELSE devolvidas
    /\ UNCHANGED <<segue_tarefas, criadas, get_suspende, tarefas, correndo, dormindo, db, supabase, fallback,
                   levantadas>>

\* the event loop starts the coroutine; a router first constructs the service
\* (__init__: self._referencias_utilizadas = set()).  A request that waits
\* while this one runs notes it as its parceiro: the invocation runs to its
\* return before any other starts, so it is the next of the history
Begin(c) ==
    /\ Em(c, "ready")
    /\ LoopLivre
    /\ pc' = [pc EXCEPT ![c] = [em |-> Posicao(servico, 1), i |-> 1]]
    /\ loc' = [loc EXCEPT ![c] = NoLoc]
    /\ referencias_utilizadas' =
          IF req[c].via = "router"
          THEN [referencias_utilizadas EXCEPT ![c] = {}]
          ELSE referencias_utilizadas
    /\ req' = [d \in Coroutines |->
                  IF d # c /\ pc[d].em = "ready"
                  THEN [req[d] EXCEPT !.parceiro = Len(hist) + 1]
                  ELSE req[d]]
    /\ UNCHANGED <<servico, clock, hist>>
    /\ UNCHANGED auditoria

\* third_party_ref = self._obter_third_party_reference(dados_pagamento)
Resolve(c) ==
    /\ Em(c, "resolve")
    /\ \E parte_aleatoria \in Rand :
         LET usadas == referencias_utilizadas[Instance(c)]
             ref == obter_third_party_reference(servico, usadas, req[c].ref_cliente, clock,
                                                parte_aleatoria)
             ramo == RamoResolucao(usadas, req[c].ref_cliente)
         IN loc' = [loc EXCEPT ![c].third_party_ref = ref,
                               ![c].ref_ligada = TRUE,
                               ![c].ramo = ramo,
                               ![c].gerada_em = IF ramo = "cliente" THEN -1 ELSE clock,
                               ![c].estava_usada = ref \in usadas]
    /\ Avancar(c)
    /\ UNCHANGED <<servico, clock, referencias_utilizadas, req, hist>>
    /\ UNCHANGED auditoria

\* self._armazenar_mapeamento_referencia(...)
Store(c) ==
    /\ Em(c, "store")
    /\ referencias_utilizadas' =
          [referencias_utilizadas EXCEPT ![Instance(c)] =
              armazenar_mapeamento_referencia(@, loc[c].third_party_ref)]
    /\ Avancar(c)
    /\ UNCHANGED <<servico, clock, req, loc, hist>>
    /\ UNCHANGED auditoria

\* payload_mpesa = {..., "input_ThirdPartyReference": ..., "input_ServiceProviderCode": ...}
Payload(c) ==
    /\ Em(c, "payload")
    /\ loc' = [loc EXCEPT ![c].payload =
                  payload_mpesa(servico, RefDaChamada(c), req[c].service_provider_code)]
    /\ Avancar(c)
    /\ UNCHANGED <<servico, clock, referencias_utilizadas, req, hist>>
    /\ UNCHANGED auditoria

\* asyncio.create_task(self._registrar_inicio_transacao(...))
LogInicio(c) ==
    /\ Em(c, "log_inicio")
    /\ loc' = [loc EXCEPT ![c].logs =
                  Append(@, TarefaLog("inicio", "pending", "PENDING", RefDaChamada(c),
                            shortcode_do_registo(servico, req[c].service_provider_code)))]
    /\ Agendar(c, TarefaLog("inicio", "pending", "PENDING", RefDaChamada(c),
                            shortcode_do_registo(servico, req[c].service_provider_code)))
    /\ Avancar(c)
    /\ UNCHANGED <<servico, clock, referencias_utilizadas, req, hist>>

\* resultado = self.mpesa_client.execute_request(self.endpoint, payload_mpesa, ...)
Dispatch(c, outcomes) ==
    /\ Em(c, "dispatch")
    /\ \E sdk \in outcomes :
         loc' = [loc EXCEPT ![c].sdk = sdk,
                            ![c].contexto = api_context(Endpoint(servico), loc[c].payload, servico),
                            ![c].resultado = execute_request(servico, sdk),
                            ![c].enviado = Append(@, loc[c].payload.input_ThirdPartyReference)]
    /\ Avancar(c)
    /\ UNCHANGED <<servico, clock, referencias_utilizadas, req, hist>>
    /\ UNCHANGED auditoria

\* resposta = self._processar_resposta_mpesa(resultado, third_party_ref); an
\* exception leaves the try block for the except branch
Process(c) ==
    /\ Em(c, "process")
    /\ LET r == processar_resposta_mpesa(servico, loc[c].resultado, RefDaChamada(c)) IN
         IF r.tipo = "excecao"
         THEN /\ loc' = [loc EXCEPT ![c].erro = r.msg]
              /\ IrPara(c, "except")
         ELSE /\ loc' = [loc EXCEPT ![c].resposta = r]
              /\ Avancar(c)
    /\ UNCHANGED <<servico, clock, referencias_utilizadas, req, hist>>
    /\ UNCHANGED auditoria

\* asyncio.create_task(self._registrar_resultado_transacao(...))
LogResult(c) ==
    /\ Em(c, "log_result")
    /\ loc' = [loc EXCEPT ![c].logs =
                  Append(@, TarefaLog("resultado", StatusResultado(servico, loc[c].resposta),
                                      loc[c].resposta.response_code, RefDaChamada(c),
                            shortcode_do_registo(servico, req[c].service_provider_code)))]
    /\ Agendar(c, TarefaLog("resultado", StatusResultado(servico, loc[c].resposta),
                            loc[c].resposta.response_code, RefDaChamada(c),
                            shortcode_do_registo(servico, req[c].service_provider_code)))
    /\ Avancar(c)
    /\ UNCHANGED <<servico, clock, referencias_utilizadas, req, hist>>

\* except Exception as e: the error is logged and a response is synthesized
Except(c) ==
    /\ Em(c, "except")
    /\ LET ref_erro ==
             IF servico \in CreationFamilies
             THEN (IF loc[c].ref_ligada THEN loc[c].third_party_ref ELSE RefErro(servico))
             ELSE req[c].ref_cliente
       IN /\ loc' = [loc EXCEPT
                    ![c].logs = Append(@, TarefaLog("erro", "failed", "INS-999", ref_erro,
                            shortcode_do_registo(servico, req[c].service_provider_code))),
                    ![c].resposta = resposta_de_excecao(ref_erro, loc[c].erro)]
          /\ Agendar(c, TarefaLog("erro", "failed", "INS-999", ref_erro,
                            shortcode_do_registo(servico, req[c].service_provider_code)))
    /\ IrPara(c, "return")
    /\ UNCHANGED <<servico, clock, referencias_utilizadas, req, hist>>

\* what the history keeps of a finished invocation
Registo(c) ==
    [via |-> req[c].via, ref_cliente |-> req[c].ref_cliente,
     falhou |-> loc[c].resposta.response_code # "INS-0",
     third_party_ref |-> loc[c].third_party_ref, ramo |-> loc[c].ramo,
     gerada_em |-> loc[c].gerada_em, estava_usada |-> loc[c].estava_usada,
     enviado |-> loc[c].enviado]

\* return resposta, for an invocation called directly on the service
Return(c) ==
    /\ Em(c, "return")
    /\ req[c].via = "direct"
    /\ ~Aguarda(c)
    /\ hist' = Append(hist, Registo(c))
    /\ IrPara(c, "idle")
    /\ req' = [req EXCEPT ![c] = NoReq]
    /\ loc' = [loc EXCEPT ![c] = NoLoc]
    /\ Devolver(c)
    /\ UNCHANGED <<servico, clock, referencias_utilizadas>>

\* mutant: every route answers 200
RotaStatusSempre200(fam) == 200
\* the HTTP status a route answers with when it returns its envelope
RotaStatus(fam) == IF fam \in CreationFamilies THEN 201 ELSE 200

\* mutant: every failure is answered like an exception in the handler
responder_endpoint_erro_interno(fam, result) ==
    LET code_info == get_mpesa_code_info(result.response_code) IN
    IF code_info.success
    THEN [status_code |-> RotaStatus(fam), success |-> TRUE, code |-> "",
          message |-> <<"processed successfully">>, code_info |-> code_info]
    ELSE [status_code |-> 500, success |-> FALSE, code |-> "INTERNAL_ERROR",
          message |-> <<"Internal server error">>, code_info |-> code_info]
\* the routers' handling of the orchestrator's result: the envelope with
\* success=True, or an HTTPException with the status of the response code
responder_endpoint(fam, result) ==
    LET code_info == get_mpesa_code_info(result.response_code) IN
    IF code_info.success
    THEN [status_code |-> RotaStatus(fam), success |-> TRUE, code |-> "",
          message |-> <<"processed successfully">>, code_info |-> code_info]
    ELSE [status_code |-> code_info.http_status, success |-> FALSE,
          code |-> result.response_code, message |-> result.response_description,
          code_info |-> code_info]

\* return resposta, for an invocation awaited by a router
ReturnRouter(c) ==
    /\ Em(c, "return")
    /\ req[c].via = "router"
    /\ ~Aguarda(c)
    /\ IrPara(c, "router")
    /\ UNCHANGED <<servico, clock, referencias_utilizadas, req, loc, hist>>
    /\ UNCHANGED auditoria

\* except HTTPException: raise, and except Exception of the six handlers.
\* An HTTPException leaves as it is.  Any other exception is answered with
\* 500 INTERNAL_ERROR by five handlers; the handler of the reversal route
\* names status.HP_500_INTERNAL_SERVER_ERROR, so an AttributeError leaves it
\* and the server answers 500 without the envelope: the traceback when the
\* application runs with debug, the text "Internal Server Error" otherwise
tratar_excecao(fam, excecao, debug) ==
    IF excecao.tipo = "HTTPException" THEN excecao.http
    ELSE IF fam = "reversal"
    THEN [NoHttp EXCEPT !.status_code = 500,
                        !.message = IF debug THEN <<"Traceback">> ELSE <<"Internal Server Error">>]
    ELSE [NoHttp EXCEPT !.status_code = 500, !.code = "INTERNAL_ERROR",
                        !.message = <<"Internal server error">>]

\* the router turns the result into the HTTP response: the envelope is
\* returned, or the HTTPException raised in the try passes the except clauses
Responder(c) ==
    /\ Em(c, "router")
    /\ LET r == responder_endpoint(servico, loc[c].resposta) IN
         loc' = [loc EXCEPT ![c].http =
                    IF r.success THEN r
                    ELSE tratar_excecao(servico, [tipo |-> "HTTPException", http |-> r], FALSE)]
    /\ IrPara(c, "respondido")
    /\ UNCHANGED <<servico, clock, referencias_utilizadas, req, hist>>
    /\ UNCHANGED auditoria

\* the request is over; its service instance is garbage
Fim(c) ==
    /\ Em(c, "respondido")
    /\ hist' = Append(hist, Registo(c))
    /\ IrPara(c, "idle")
    /\ req' = [req EXCEPT ![c] = NoReq]
    /\ loc' = [loc EXCEPT ![c] = NoLoc]
    /\ referencias_utilizadas' = [referencias_utilizadas EXCEPT ![c] = {}]
    /\ Devolver(c)
    /\ UNCHANGED <<servico, clock>>

Next ==
    \/ Tick
    \/ \E c \in Coroutines, t \in ClientTokens(servico) : Arrive(c, "direct", t, SchemaShortcode(servico))
    \/ \E c \in Coroutines : Begin(c)
    \/ \E c \in Coroutines : Resolve(c)
    \/ \E c \in Coroutines : Store(c)
    \/ \E c \in Coroutines : Payload(c)
    \/ \E c \in Coroutines : LogInicio(c)
    \/ \E c \in Coroutines : Dispatch(c, SdkResumo)
    \/ \E c \in Coroutines : Process(c)
    \/ \E c \in Coroutines : LogResult(c)
    \/ \E c \in Coroutines : Except(c)
    \/ \E c \in Coroutines : Return(c)

\* one long-lived payment service instance, called directly
Spec == Init /\ [][Next]_vars

(***************************************************************************)
(* Requests entering through the routers: every request constructs its own *)
(* service instance.  The behaviour follows one of the six endpoints.      *)
(***************************************************************************)
InitEndpoint ==
    /\ AuditoriaInicial(FALSE, {FALSE})
    /\ servico \in Families
    /\ clock = 0
    /\ referencias_utilizadas = [i \in Instances |-> {}]
    /\ pc = [c \in Coroutines |-> [em |-> "idle", i |-> 0]]
    /\ req = [c \in Coroutines |-> NoReq]
    /\ loc = [c \in Coroutines |-> NoLoc]
    /\ hist = <<>>

NextEndpoint ==
    \/ Tick
    \/ \E c \in Coroutines, t \in RouterTokens(servico) : Arrive(c, "router", t, SchemaShortcode(servico))
    \/ \E c \in Coroutines : Begin(c)
    \/ \E c \in Coroutines : Resolve(c)
    \/ \E c \in Coroutines : Store(c)
    \/ \E c \in Coroutines : Payload(c)
    \/ \E c \in Coroutines : LogInicio(c)
    \/ \E c \in Coroutines : Dispatch(c, SdkOutcomes)
    \/ \E c \in Coroutines : Process(c)
    \/ \E c \in Coroutines : LogResult(c)
    \/ \E c \in Coroutines : Except(c)
    \/ \E c \in Coroutines : ReturnRouter(c)
    \/ \E c \in Coroutines : Responder(c)
    \/ \E c \in Coroutines : Fim(c)

SpecEndpoint == InitEndpoint /\ [][NextEndpoint]_vars

(***************************************************************************)
(* Requests whose clients choose the shortcode field themselves.           *)
(***************************************************************************)
NextShortcode ==
    \/ Tick
    \/ \E c \in Coroutines, t \in RouterTokens(servico), codigo \in ClientShortcodes(servico) :
          Arrive(c, "router", t, codigo)
    \/ \E c \in Coroutines : Begin(c)
    \/ \E c \in Coroutines : Resolve(c)
    \/ \E c \in Coroutines : Store(c)
    \/ \E c \in Coroutines : Payload(c)
    \/ \E c \in Coroutines : LogInicio(c)
    \/ \E c \in Coroutines : Dispatch(c, SdkResumo)
    \/ \E c \in Coroutines : Process(c)
    \/ \E c \in Coroutines : LogResult(c)
    \/ \E c \in Coroutines : Except(c)
    \/ \E c \in Coroutines : ReturnRouter(c)
    \/ \E c \in Coroutines : Responder(c)
    \/ \E c \in Coroutines : Fim(c)

SpecShortcode == InitEndpoint /\ [][NextShortcode]_vars

(***************************************************************************)
(* The response-code translator at the endpoints: an orchestrator has      *)
(* returned a response with any response code (the gateway's body may      *)
(* carry any string), and the router looks the code up.                    *)
(***************************************************************************)
\* strings that are no key of the table
CodigosNaoMapeados == {"0", "", "INS-3", "ins-0", "INS-0 ", "PENDING"}
CodigosConsultados == DOMAIN MPESA_RESPONSE_CODES \cup CodigosNaoMapeados

InitTradutor ==
    /\ AuditoriaInicial(FALSE, {FALSE})
    /\ servico \in Families
    /\ clock = 0
    /\ referencias_utilizadas = [i \in Instances |-> {}]
    /\ \E codigo \in CodigosConsultados :
         /\ pc = [c \in Coroutines |->
                    IF c = 1 THEN [em |-> "router", i |-> 0] ELSE [em |-> "idle", i |-> 0]]
         /\ req = [c \in Coroutines |->
                    IF c = 1 THEN [NoReq EXCEPT !.via = "router", !.ref_cliente = Literal("INVOICE_1")]
                    ELSE NoReq]
         /\ loc = [c \in Coroutines |->
                    IF c = 1
                    THEN [NoLoc EXCEPT !.resposta =
                             Resposta(Literal("INVOICE_1"), codigo, <<"descricao">>, Nulo, Nulo, Nulo)]
                    ELSE NoLoc]
    /\ hist = <<>>

NextTradutor ==
    \/ \E c \in Coroutines : Responder(c)
    \/ \E c \in Coroutines : Fim(c)

SpecTradutor == InitTradutor /\ [][NextTradutor]_vars

(***************************************************************************)
(* The HTTP entry of the endpoints.  Before a route's handler runs, the    *)
(* framework calls its dependency validate_api_key and validates the       *)
(* request model; the application installs no handler of its own for a     *)
(* request that fails validation, so the framework's answer goes out.      *)
(***************************************************************************)
API_KEY == "mpesa_f2f8e4f000b4469ebd899cfbba434eec_W5qp4EMhWSIgmFoH9uO4Tg"

\* validate_api_key: the status of the HTTPException it raises, 0 when it
\* returns the key
validate_api_key(api_key) == IF api_key # API_KEY THEN 401 ELSE 0

\* the status the request is refused with before the handler runs, 0 when
\* the handler runs.  The dependency is solved first and its HTTPException
\* leaves at once; a missing header and an amount the request model refuses
\* (amount: gt=0, required; reversal_amount: gt=0, optional; the queries have
\* no amount) are validation errors, answered with 422
validar_pedido(fam, x_api_key, valor) ==
    LET amount_ok ==
            CASE fam \in CreationFamilies -> valor # <<>> /\ valor[1] > 0
              [] fam = "reversal" -> valor = <<>> \/ valor[1] > 0
              [] OTHER -> TRUE
    IN  IF x_api_key # Nulo /\ validate_api_key(x_api_key) # 0 THEN validate_api_key(x_api_key)
        ELSE IF x_api_key = Nulo \/ ~amount_ok THEN 422
        ELSE 0

\* an HTTP request reaches a route
Entrada(c, ref_cliente, x_api_key, valor) ==
    /\ pc[c].em = "idle"
    /\ \A d \in Coroutines : pc[d].em = "idle" => c <= d
    /\ LoopLivre
    /\ Chamadas < MaxCalls
    /\ req' = [req EXCEPT ![c] = [NoReq EXCEPT !.via = "router", !.ref_cliente = ref_cliente,
                                               !.service_provider_code = SchemaShortcode(servico),
                                               !.x_api_key = x_api_key, !.valor = valor]]
    /\ IrPara(c, "entrada")
    /\ UNCHANGED <<servico, clock, referencias_utilizadas, loc, hist>>
    /\ UNCHANGED auditoria

\* the framework solves the route's dependencies and validates the request:
\* the handler is scheduled, or the request is refused
Validar(c) ==
    /\ Em(c, "entrada")
    /\ LET recusa == validar_pedido(servico, req[c].x_api_key, req[c].valor) IN
         IF recusa = 0
         THEN /\ IrPara(c, "ready")
              /\ loc' = loc
         ELSE /\ IrPara(c, "rejeitado")
              /\ loc' = [loc EXCEPT ![c].http = [NoHttp EXCEPT !.status_code = recusa]]
    /\ UNCHANGED <<servico, clock, referencias_utilizadas, req, hist>>
    /\ UNCHANGED auditoria

\* service = XService() raises in the handler's try (get_supabase cannot
\* build the client, the settings lack a value): the except branch answers
ConstrucaoFalha(c, debug) ==
    /\ Em(c, "ready")
    /\ req[c].via = "router"
    /\ LoopLivre
    /\ loc' = [loc EXCEPT ![c].http = tratar_excecao(servico, [tipo |-> "Exception", http |-> NoHttp], debug)]
    /\ IrPara(c, "erro_interno")
    /\ UNCHANGED <<servico, clock, referencias_utilizadas, req, hist>>
    /\ UNCHANGED auditoria

\* the refusal or the error has been sent; no service was invoked
FimRejeitado(c) ==
    /\ pc[c].em \in {"rejeitado", "erro_interno"}
    /\ PodeExecutar(c)
    /\ IrPara(c, "idle")
    /\ req' = [req EXCEPT ![c] = NoReq]
    /\ loc' = [loc EXCEPT ![c] = NoLoc]
    /\ UNCHANGED <<servico, clock, referencias_utilizadas, hist>>
    /\ UNCHANGED auditoria

NextEntrada ==
    \/ \E c \in Coroutines, t \in RouterTokens(servico),
          x_api_key \in {API_KEY, "mpesa_0", Nulo}, valor \in {<<>>, <<-5>>, <<0>>, <<100>>} :
          Entrada(c, t, x_api_key, valor)
    \/ \E c \in Coroutines : Validar(c)
    \/ \E c \in Coroutines : FimRejeitado(c)
    \/ \E c \in Coroutines, debug \in BOOLEAN : ConstrucaoFalha(c, debug)
    \/ \E c \in Coroutines : Begin(c)
    \/ \E c \in Coroutines : Resolve(c)
    \/ \E c \in Coroutines : Store(c)
    \/ \E c \in Coroutines : Payload(c)
    \/ \E c \in Coroutines : LogInicio(c)
    \/ \E c \in Coroutines : Dispatch(c, SdkResumo)
    \/ \E c \in Coroutines : Process(c)
    \/ \E c \in Coroutines : LogResult(c)
    \/ \E c \in Coroutines : Except(c)
    \/ \E c \in Coroutines : ReturnRouter(c)
    \/ \E c \in Coroutines : Responder(c)
    \/ \E c \in Coroutines : Fim(c)

SpecEntrada == InitEndpoint /\ [][NextEntrada]_vars

(***************************************************************************)
(* execute_request called with any transaction type: the six the services  *)
(* pass, the same in other letter case, and strings that name no           *)
(* operation.                                                              *)
(***************************************************************************)
InitTransporte ==
    /\ AuditoriaInicial(FALSE, {FALSE})
    /\ servico \in Families \cup {"B2C", "Reversal", "QUERY_CUSTOMER", "REFUND", "refund", ""}
    /\ clock = 0
    /\ referencias_utilizadas = [i \in Instances |-> {}]
    /\ pc = [c \in Coroutines |->
               IF c = 1
               THEN [em |-> "dispatch",
                     i |-> CHOOSE i \in 1..Len(Ordem(servico)) : Posicao(servico, i) = "dispatch"]
               ELSE [em |-> "idle", i |-> 0]]
    /\ req = [c \in Coroutines |->
               IF c = 1 THEN [NoReq EXCEPT !.via = "direct", !.ref_cliente = Literal("INVOICE_1")]
               ELSE NoReq]
    /\ \E fam \in Families, codigo \in {"171717", "900579"} :
         loc = [c \in Coroutines |->
                  IF c = 1
                  THEN [NoLoc EXCEPT !.third_party_ref = Literal("INVOICE_1"),
                                     !.payload = payload_mpesa(fam, Literal("INVOICE_1"), codigo)]
                  ELSE NoLoc]
    /\ hist = <<>>

NextTransporte == \E c \in Coroutines : Dispatch(c, SdkResumo)

SpecTransporte == InitTransporte /\ [][NextTransporte]_vars

(***************************************************************************)
(* The audit path followed: one long-lived service instance called         *)
(* directly, the tasks its invocations create, and the drain of its        *)
(* DatabaseService.  A task runs from one suspension to the next without   *)
(* interleaving; a drain task suspends in the sleep between two attempts,   *)
(* and in the get where wait_for does not await it in place (here it       *)
(* does).                                                                  *)
(***************************************************************************)
\* the event loop resumes the task at the head of its ready queue
Escalonar ==
    /\ LoopLivre
    /\ tarefas # <<>>
    /\ correndo' = Head(tarefas)
    /\ tarefas' = Tail(tarefas)
    /\ UNCHANGED <<servico, clock, referencias_utilizadas, pc, req, loc, hist>>
    /\ UNCHANGED <<segue_tarefas, criadas, get_suspende, dormindo, db, supabase, fallback, levantadas, devolvidas>>

\* the first drain task of the instance that waits in Queue.get, 0 if none
PrimeiroGetter(inst) ==
    LET bloqueados == {k \in 1..Len(dormindo) :
                          dormindo[k].inst = inst /\ dormindo[k].em = "bloqueado"}
    IN IF bloqueados = {} THEN 0 ELSE CHOOSE k \in bloqueados : \A j \in bloqueados : k <= j
\* the sequence without its k-th element
Retirar(seq, k) == SubSeq(seq, 1, k - 1) \o SubSeq(seq, k + 1, Len(seq))

\* _registrar_inicio_transacao (and _registrar_resultado_, _registrar_erro_):
\* dados_log is built and registrar_transacao_async awaited, to the end.  A
\* put wakes the first getter that waits on the queue
Registrar ==
    /\ correndo.tipo = "registrar"
    /\ \E resultado_fila \in ResultadosFila :
         LET r == registrar_transacao_async(db[correndo.inst], correndo.dados, resultado_fila)
             k == IF resultado_fila = "ok" THEN PrimeiroGetter(correndo.inst) ELSE 0
             acordadas == IF k = 0 THEN tarefas
                          ELSE Append(tarefas, [dormindo[k] EXCEPT !.em = "get"])
         IN
           /\ db' = [db EXCEPT ![correndo.inst] = r.db]
           /\ dormindo' = IF k = 0 THEN dormindo ELSE Retirar(dormindo, k)
           /\ tarefas' = IF r.inicia_dreno
                         THEN create_task(acordadas, TarefaDreno(correndo.inst))
                         ELSE acordadas
           /\ fallback' = fallback \o r.fallback
           /\ levantadas' = IF r.levantou THEN Append(levantadas, correndo.dados) ELSE levantadas
    /\ correndo' = NoTarefa
    /\ UNCHANGED <<servico, clock, referencias_utilizadas, pc, req, loc, hist>>
    /\ UNCHANGED <<segue_tarefas, criadas, get_suspende, supabase, devolvidas>>

\* _processar_fila_logs, first statement: self._processando = True
ProcessarFilaInicio ==
    /\ correndo.tipo = "dreno"
    /\ correndo.em = "inicio"
    /\ db' = [db EXCEPT ![correndo.inst].processando = TRUE]
    /\ correndo' = [correndo EXCEPT !.em = "loop"]
    /\ UNCHANGED <<servico, clock, referencias_utilizadas, pc, req, loc, hist>>
    /\ UNCHANGED <<segue_tarefas, criadas, get_suspende, tarefas, dormindo, supabase, fallback, levantadas,
                   devolvidas>>

\* while not self._fila_logs.empty(): on an empty queue the loop ends and
\* finally resets the flag; otherwise the drain awaits the get, which takes
\* the next record at once or suspends the drain first
ProcessarFilaLoop ==
    /\ correndo.tipo = "dreno"
    /\ correndo.em = "loop"
    /\ IF db[correndo.inst].fila_logs = <<>>
       THEN /\ db' = [db EXCEPT ![correndo.inst].processando = FALSE]
            /\ correndo' = NoTarefa
            /\ UNCHANGED tarefas
       ELSE IF get_suspende
       THEN /\ tarefas' = Append(tarefas, [correndo EXCEPT !.em = "get"])
            /\ correndo' = NoTarefa
            /\ UNCHANGED db
       ELSE /\ db' = [db EXCEPT ![correndo.inst].fila_logs = Tail(@)]
            /\ correndo' = [correndo EXCEPT !.em = "tentativa", !.tentativa = 0,
                                            !.esperas = <<>>,
                                            !.dados = Head(db[correndo.inst].fila_logs)]
            /\ UNCHANGED tarefas
    /\ UNCHANGED <<servico, clock, referencias_utilizadas, pc, req, loc, hist>>
    /\ UNCHANGED <<segue_tarefas, criadas, get_suspende, dormindo, supabase, fallback, levantadas, devolvidas>>

\* the get of a suspended drain runs: it takes the next record, or waits for
\* one if another drain emptied the queue meanwhile
ObterDaFila ==
    /\ correndo.tipo = "dreno"
    /\ correndo.em = "get"
    /\ IF db[correndo.inst].fila_logs = <<>>
       THEN /\ dormindo' = Append(dormindo, [correndo EXCEPT !.em = "bloqueado"])
            /\ correndo' = NoTarefa
            /\ UNCHANGED db
       ELSE /\ db' = [db EXCEPT ![correndo.inst].fila_logs = Tail(@)]
            /\ correndo' = [correndo EXCEPT !.em = "tentativa", !.tentativa = 0,
                                            !.esperas = <<>>,
                                            !.dados = Head(db[correndo.inst].fila_logs)]
            /\ UNCHANGED dormindo
    /\ UNCHANGED <<servico, clock, referencias_utilizadas, pc, req, loc, hist>>
    /\ UNCHANGED <<segue_tarefas, criadas, get_suspende, tarefas, supabase, fallback, levantadas, devolvidas>>

\* the 2.0 seconds of wait_for are over for a drain that waits for a record
TimeoutDoGet ==
    /\ LoopLivre
    /\ \E k \in 1..Len(dormindo) :
         /\ dormindo[k].em = "bloqueado"
         /\ tarefas' = Append(tarefas, [dormindo[k] EXCEPT !.em = "timeout"])
         /\ dormindo' = Retirar(dormindo, k)
    /\ UNCHANGED <<servico, clock, referencias_utilizadas, pc, req, loc, hist>>
    /\ UNCHANGED <<segue_tarefas, criadas, get_suspende, correndo, db, supabase, fallback, levantadas,
                   devolvidas>>

\* except asyncio.TimeoutError: break, and finally resets the flag
ProcessarFilaTimeout ==
    /\ correndo.tipo = "dreno"
    /\ correndo.em = "timeout"
    /\ db' = [db EXCEPT ![correndo.inst].processando = FALSE]
    /\ correndo' = NoTarefa
    /\ UNCHANGED <<servico, clock, referencias_utilizadas, pc, req, loc, hist>>
    /\ UNCHANGED <<segue_tarefas, criadas, get_suspende, tarefas, dormindo, supabase, fallback, levantadas,
                   devolvidas>>

\* one turn of the for loop of _salvar_com_retry, and what the drain does
\* with its result: rows end the loop with True; otherwise the task sleeps
\* before the next attempt, and after the last one the drain counts the
\* failure and writes the record to the local file
SalvarComRetry ==
    /\ correndo.tipo = "dreno"
    /\ correndo.em = "tentativa"
    /\ \E resposta \in RespostasSupabase :
         IF resposta = "data"
         THEN /\ supabase' = Append(supabase, correndo.dados)
              /\ db' = [db EXCEPT ![correndo.inst].total_logs_processados = @ + 1]
              /\ correndo' = [correndo EXCEPT !.em = "loop", !.tentativa = 0,
                                              !.esperas = <<>>, !.dados = NoDados]
              /\ UNCHANGED <<dormindo, fallback>>
         ELSE IF correndo.tentativa < tentativas_max - 1
         THEN /\ dormindo' = Append(dormindo,
                                    [correndo EXCEPT !.tentativa = @ + 1,
                                                     !.esperas = Append(@, backoff(correndo.tentativa))])
              /\ correndo' = NoTarefa
              /\ UNCHANGED <<supabase, db, fallback>>
         ELSE /\ db' = [db EXCEPT ![correndo.inst].total_logs_falha = @ + 1]
              /\ fallback' = Append(fallback, salvar_fallback_local(correndo.dados, "erro_supabase"))
              /\ correndo' = [correndo EXCEPT !.em = "loop", !.tentativa = 0,
                                              !.esperas = <<>>, !.dados = NoDados]
              /\ UNCHANGED <<supabase, dormindo>>
    /\ UNCHANGED <<servico, clock, referencias_utilizadas, pc, req, loc, hist>>
    /\ UNCHANGED <<segue_tarefas, criadas, get_suspende, tarefas, levantadas, devolvidas>>

\* the sleep of a drain task is over: the task is ready again
Acordar ==
    /\ LoopLivre
    /\ \E k \in 1..Len(dormindo) :
         /\ dormindo[k].em = "tentativa"
         /\ tarefas' = Append(tarefas, dormindo[k])
         /\ dormindo' = Retirar(dormindo, k)
    /\ UNCHANGED <<servico, clock, referencias_utilizadas, pc, req, loc, hist>>
    /\ UNCHANGED <<segue_tarefas, criadas, get_suspende, correndo, db, supabase, fallback, levantadas,
                   devolvidas>>

(***************************************************************************)
(* One DatabaseService followed alone: its callers create writers at any   *)
(* moment the loop is free, each with a record of its own.                 *)
(***************************************************************************)
\* the n-th record handed to the DatabaseService
RegistoDreno(n) ==
    TarefaLog("inicio", "pending", "PENDING", <<"REC", n, "">>, MPESA_SERVICE_PROVIDER_CODE)
\* a caller creates the writer of one more record
CriarRegisto ==
    /\ LoopLivre
    /\ criadas < MaxRegistos
    /\ criadas' = criadas + 1
    /\ tarefas' = create_task(tarefas, TarefaRegistrar(0, criadas + 1, RegistoDreno(criadas + 1)))
    /\ UNCHANGED <<servico, clock, referencias_utilizadas, pc, req, loc, hist>>
    /\ UNCHANGED <<segue_tarefas, get_suspende, correndo, dormindo, db, supabase, fallback,
                   levantadas, devolvidas>>

InitDreno ==
    /\ AuditoriaInicial(TRUE, SuspensoesDoGet)
    /\ servico = "c2b"
    /\ clock = 0
    /\ referencias_utilizadas = [i \in Instances |-> {}]
    /\ pc = [c \in Coroutines |-> [em |-> "idle", i |-> 0]]
    /\ req = [c \in Coroutines |-> NoReq]
    /\ loc = [c \in Coroutines |-> NoLoc]
    /\ hist = <<>>

NextDreno ==
    \/ CriarRegisto
    \/ Escalonar
    \/ Registrar
    \/ ProcessarFilaInicio
    \/ ProcessarFilaLoop
    \/ ObterDaFila
    \/ TimeoutDoGet
    \/ ProcessarFilaTimeout
    \/ SalvarComRetry
    \/ Acordar

\* the writers and drain tasks of one DatabaseService, in every interleaving
SpecDreno == InitDreno /\ [][NextDreno]_vars

\* the event loop schedules fairly: a task that is ready is resumed, a task
\* that runs goes on to its next suspension, and every sleep and every
\* timeout comes to its end.  Nothing obliges a caller to create a writer
SpecDrenoJusto ==
    /\ SpecDreno
    /\ WF_vars(Escalonar)
    /\ WF_vars(Registrar)
    /\ WF_vars(ProcessarFilaInicio)
    /\ WF_vars(ProcessarFilaLoop)
    /\ WF_vars(ObterDaFila)
    /\ WF_vars(TimeoutDoGet)
    /\ WF_vars(ProcessarFilaTimeout)
    /\ WF_vars(SalvarComRetry)
    /\ WF_vars(Acordar)

\* the services followed: CreditIn, and B2B, whose response parsing can raise
FamiliasAudit == {"c2b", "b2b"}
\* the gateway outcomes followed: an accepted payment and a body that is a list
SdkAudit == {o \in SdkResumo : o.tipo = "reply" /\ o.status_code = 200}

InitAudit ==
    /\ AuditoriaInicial(TRUE, {FALSE})
    /\ servico \in FamiliasAudit
    /\ clock = 0
    /\ referencias_utilizadas = [i \in Instances |-> {}]
    /\ pc = [c \in Coroutines |-> [em |-> "idle", i |-> 0]]
    /\ req = [c \in Coroutines |-> NoReq]
    /\ loc = [c \in Coroutines |-> NoLoc]
    /\ hist = <<>>

NextAudit ==
    \/ \E c \in Coroutines, t \in Literals : Arrive(c, "direct", t, SchemaShortcode(servico))
    \/ \E c \in Coroutines : Begin(c)
    \/ \E c \in Coroutines : Resolve(c)
    \/ \E c \in Coroutines : Store(c)
    \/ \E c \in Coroutines : Payload(c)
    \/ \E c \in Coroutines : LogInicio(c)
    \/ \E c \in Coroutines : Dispatch(c, SdkAudit)
    \/ \E c \in Coroutines : Process(c)
    \/ \E c \in Coroutines : LogResult(c)
    \/ \E c \in Coroutines : Except(c)
    \/ \E c \in Coroutines : Return(c)
    \/ Escalonar
    \/ Registrar
    \/ ProcessarFilaInicio
    \/ ProcessarFilaLoop
    \/ SalvarComRetry
    \/ Acordar

\* the invocations of one service instance and the audit tasks they create
SpecAudit == InitAudit /\ [][NextAudit]_vars

(***************************************************************************)
(* Properties.  Usadas is the used-set of the long-lived instance; the     *)
(* history holds the finished invocations in the order of their returns,   *)
(* which is the order of their resolutions (an invocation does not         *)
(* suspend).                                                               *)
(***************************************************************************)
Usadas == referencias_utilizadas[0]
\* the references an invocation handed to the gateway client
Enviados(enviado) == {enviado[k] : k \in 1..Len(enviado)}
\* the references the service can generate in second now
GeradasEm(fam, now) == {gerar_third_party_reference(fam, now, r) : r \in Rand}
\* calls i and j of the history carry the same client reference
MesmaRefCliente(i, j) ==
    /\ i < j
    /\ hist[i].ref_cliente # NoToken
    /\ hist[i].ref_cliente = hist[j].ref_cliente

C2_NenhumaReferenciaDuasVezes ==
    /\ \A i \in 1..Len(hist) : ~hist[i].estava_usada
    /\ \A i, j \in 1..Len(hist) :
          i < j => Enviados(hist[i].enviado) \cap Enviados(hist[j].enviado) = {}

\* C3: the used-set is shared by the requests of a payment endpoint: after a
\* request carrying client reference T was processed, a later request to the
\* same endpoint carrying T is a duplicate and goes to the gateway with a
\* newly generated reference instead of T.
C3_DuplicadoEntrePedidos ==
    \A i, j \in 1..Len(hist) :
        (servico \in CreationFamilies /\ MesmaRefCliente(i, j)
            /\ hist[i].via = "router" /\ hist[j].via = "router")
        => /\ hist[j].ramo = "substituida"
           /\ hist[i].ref_cliente \notin Enviados(hist[j].enviado)

\* C4: when the client reference is omitted the resolved reference is not
\* empty, and the references resolved for repeated submissions without a
\* reference are pairwise distinct.
C4_GeradasDistintas ==
    /\ \A i \in 1..Len(hist) :
          hist[i].ref_cliente = NoToken
          => hist[i].third_party_ref # NoToken /\ hist[i].third_party_ref[1] # ""
    /\ \A i, j \in 1..Len(hist) :
          (i < j /\ hist[i].ref_cliente = NoToken /\ hist[j].ref_cliente = NoToken)
          => hist[i].third_party_ref # hist[j].third_party_ref

\* C5: in every execution of a payment service that reaches the gateway, the
\* resolved reference is in the used-set when the outbound call is issued:
\* it is there before the call, it is the reference of the payload, and
\* whatever was sent is in the set.
C5_ArmazenadaAntesDoEnvio ==
    \A c \in Coroutines :
        /\ pc[c].em = "dispatch"
             => /\ loc[c].third_party_ref \in referencias_utilizadas[Instance(c)]
                /\ loc[c].payload.input_ThirdPartyReference = loc[c].third_party_ref
        /\ Enviados(loc[c].enviado) \subseteq referencias_utilizadas[Instance(c)]

\* the outbound call of an invocation was issued with a reference of the used-set
C5_Witness ==
    \E c \in Coroutines :
        /\ pc[c].em = "process"
        /\ loc[c].enviado = <<loc[c].third_party_ref>>
        /\ loc[c].third_party_ref # NoToken
        /\ loc[c].third_party_ref \in Usadas

\* C6: the used-set of a service instance only grows: no step removes a
\* reference, whether the outbound call fails or the except branch runs,
\* and a later call on the instance that carries a client reference already
\* resolved is given a generated replacement.
C6_ConjuntoSoCresce ==
    [][/\ \A i \in Instances : referencias_utilizadas[i] \subseteq referencias_utilizadas'[i]
       /\ \A c \in Coroutines :
             (pc[c].em = "return" /\ loc[c].third_party_ref # NoToken)
             => loc[c].third_party_ref \in referencias_utilizadas'[Instance(c)]
       /\ \A i, j \in 1..Len(hist') :
             (i < j /\ hist'[j].ref_cliente # NoToken
                 /\ hist'[i].third_party_ref = hist'[j].ref_cliente)
             => /\ hist'[j].gerada_em \in 0..MaxClock
                /\ hist'[j].third_party_ref \in GeradasEm(servico, hist'[j].gerada_em)]_vars

\* a call whose gateway call failed kept its client reference in the used-set,
\* and a later call carrying that reference was given a replacement
C6_Witness ==
    \E i, j \in 1..Len(hist) :
        /\ MesmaRefCliente(i, j)
        /\ hist[i].falhou
        /\ hist[i].third_party_ref = hist[i].ref_cliente
        /\ hist[j].ramo = "substituida"
        /\ hist[j].third_party_ref # hist[i].ref_cliente
        /\ {hist[i].third_party_ref, hist[j].third_party_ref} \subseteq Usadas

\* C7: of two concurrent process_payment coroutines on one service instance
\* that carry the same client reference T, at most one sends T to the
\* gateway.  The coroutine at its return waited while its parceiro ran.
C7_NoMaximoUmEnviaT ==
    \A c \in Coroutines :
        (/\ pc[c].em = "return"
         /\ req[c].ref_cliente # NoToken
         /\ req[c].parceiro \in 1..Len(hist)
         /\ hist[req[c].parceiro].ref_cliente = req[c].ref_cliente)
        => ~(/\ req[c].ref_cliente \in Enviados(hist[req[c].parceiro].enviado)
             /\ req[c].ref_cliente \in Enviados(loc[c].enviado))

\* C8: no orchestrator raises: whatever the gateway does (an exception of the
\* transport, a body that is no dict or is missing), the invocation returns
\* a response with a third-party reference, and after a transport exception
\* its response code is one the table maps to success = false.
C8_OrquestradorNuncaLevanta ==
    \A c \in Coroutines :
        pc[c].em \in {"return", "router", "respondido"}
        => /\ loc[c].resposta.tipo = "resposta"
           /\ loc[c].resposta.third_party_reference # NoToken
           /\ loc[c].resposta.third_party_reference[1] # ""
           /\ loc[c].sdk.tipo = "raise"
                => ~get_mpesa_code_info(loc[c].resposta.response_code).success

\* the SDK raised and the endpoint answered with the failure of the response
C8_Witness ==
    \E c \in Coroutines :
        /\ pc[c].em = "respondido"
        /\ loc[c].sdk.tipo = "raise"
        /\ loc[c].resposta.tipo = "resposta"
        /\ loc[c].resposta.response_code = "INS-999"
        /\ loc[c].resposta.third_party_reference # NoToken
        /\ ~loc[c].http.success

\* C9: execute_request propagates no exception: when building or executing
\* the SDK request raises, the result has success = false, status_code = 500
\* and the message of the exception under 'error' (and no body).
C9_ExecuteRequestNaoPropaga ==
    \A c \in Coroutines :
        loc[c].sdk.tipo = "raise"
        => /\ loc[c].resultado.success = FALSE
           /\ loc[c].resultado.status_code = 500
           /\ loc[c].resultado.error = loc[c].sdk.msg
           /\ ~loc[c].resultado.tem_body

\* the SDK raised and the orchestrator holds the result of execute_request
C9_Witness ==
    \E c \in Coroutines :
        /\ pc[c].em = "process"
        /\ loc[c].sdk.tipo = "raise"
        /\ loc[c].sdk.msg = "Invalid public key"
        /\ loc[c].resultado.error = "Invalid public key"
        /\ loc[c].resultado.status_code = 500

\* C10: an invocation of an orchestrator makes exactly one outbound attempt:
\* execute_request is called once and not again, whatever its result.
C10_UmaTentativa ==
    /\ \A c \in Coroutines :
          /\ Len(loc[c].enviado) <= 1
          /\ pc[c].em \in {"process", "log_result", "except", "return", "router", "respondido"}
               => Len(loc[c].enviado) = 1
    /\ \A i \in 1..Len(hist) : Len(hist[i].enviado) = 1

\* an invocation whose gateway call ended in a transport exception has
\* returned after one attempt
C10_Witness ==
    \E c \in Coroutines :
        /\ pc[c].em = "respondido"
        /\ loc[c].sdk.tipo = "raise"
        /\ Len(loc[c].enviado) = 1

\* C11: get_mpesa_code_info is total: for every string it returns an entry
\* with http_status, message and success; the entry of 'INS-0' has success
\* true; every string that is no key of the table gets the entry of
\* 'INS-999' (http_status 500, success false).
C11_TradutorTotal ==
    \A c \in Coroutines :
        pc[c].em = "respondido"
        => LET codigo == loc[c].resposta.response_code
               info == loc[c].http.code_info
           IN /\ DOMAIN info = {"http_status", "message", "success"}
              /\ info.success \in BOOLEAN
              /\ codigo \in DOMAIN MPESA_RESPONSE_CODES => info = MPESA_RESPONSE_CODES[codigo]
              /\ codigo = "INS-0" => info.success
              /\ codigo \notin DOMAIN MPESA_RESPONSE_CODES
                   => /\ info = MPESA_RESPONSE_CODES["INS-999"]
                      /\ info.http_status = 500
                      /\ ~info.success

\* a router looked up a string that is no key of the table
C11_Witness ==
    \E c \in Coroutines :
        /\ pc[c].em = "respondido"
        /\ loc[c].resposta.response_code = "INS-3"
        /\ loc[c].http.code_info.http_status = 500
        /\ loc[c].http.status_code = 500

\* C12: for a CreditIn request whose gateway reply has status 200 and body
\* {output_ResponseCode: 'INS-0', output_TransactionID: 'T1'}, the response
\* has response_code 'INS-0' and transaction_id 'T1', and the endpoint
\* returns the envelope with success = true under HTTP status 201.
C12_CreditInAceite ==
    \A c \in Coroutines :
        (/\ servico = "c2b"
         /\ loc[c].sdk = [tipo |-> "reply", msg |-> "", status_code |-> 200,
                          body |-> BodyDict(DictPagamentoAceite)])
        => /\ pc[c].em # "except"
           /\ pc[c].em \in {"log_result", "return", "router", "respondido"}
                => /\ loc[c].resposta.response_code = "INS-0"
                   /\ loc[c].resposta.transaction_id = "T1"
           /\ pc[c].em = "respondido"
                => /\ loc[c].http.success
                   /\ loc[c].http.status_code = 201

\* POST /c2b/payments answered 201 for that reply
C12_Witness ==
    \E c \in Coroutines :
        /\ servico = "c2b"
        /\ pc[c].em = "respondido"
        /\ loc[c].sdk.status_code = 200
        /\ loc[c].sdk.body = BodyDict(DictPagamentoAceite)
        /\ loc[c].resposta.transaction_id = "T1"
        /\ loc[c].http.success
        /\ loc[c].http.status_code = 201

\* C13: when the gateway result is successful (status 200) but its body is
\* missing or malformed (null, a string that is no JSON, a value that is no
\* mapping), the orchestrator returns a failure response with code
\* 'INS-999' and does not raise; it never reports success for such a reply.
C13_CorpoMalformadoFalha ==
    \A c \in Coroutines :
        (/\ loc[c].sdk.tipo = "reply"
         /\ loc[c].sdk.status_code = 200
         /\ loc[c].sdk.body \in {BodyNone, BodyStrInvalida, BodyList}
         /\ pc[c].em \in {"return", "router", "respondido"})
        => /\ loc[c].resposta.tipo = "resposta"
           /\ loc[c].resposta.response_code = "INS-999"
           /\ ~get_mpesa_code_info(loc[c].resposta.response_code).success

\* the returned response of coroutine c answers a gateway result that was
\* not successful
RespostaDeInsucesso(c) ==
    /\ pc[c].em \in {"return", "router", "respondido"}
    /\ loc[c].sdk.tipo # ""
    /\ ~loc[c].resultado.success

Sentinelas == {RefErro(fam) : fam \in CreationFamilies}

\* C15: every response an orchestrator returns carries a third-party
\* reference: the one resolved for the request (or supplied with it, in the
\* query and reversal services) whenever resolution completed, and a
\* sentinel ('ref_erro', 'b2c_ref_erro', 'b2b_ref_erro') only when the
\* exception came before resolution completed.
C15_ReferenciaSemprePreenchida ==
    \A c \in Coroutines :
        pc[c].em \in {"return", "router", "respondido"}
        => LET ref == loc[c].resposta.third_party_reference IN
           /\ ref # NoToken
           /\ ref[1] # ""
           /\ servico \in QueryFamilies => ref = req[c].ref_cliente
           /\ (servico \in CreationFamilies /\ loc[c].ref_ligada)
                => /\ ref = loc[c].third_party_ref
                   /\ ref \in Enviados(loc[c].enviado)
           /\ ref \in Sentinelas => (servico \in CreationFamilies /\ ~loc[c].ref_ligada)

\* an invocation that took its except branch after resolution answered with
\* the generated reference
C15_Witness ==
    \E c \in Coroutines :
        /\ pc[c].em = "respondido"
        /\ servico \in CreationFamilies
        /\ loc[c].erro # ""
        /\ req[c].ref_cliente = NoToken
        /\ loc[c].resposta.third_party_reference \in GenTokens(servico)
        /\ loc[c].resposta.third_party_reference = loc[c].third_party_ref

\* C16: every failure returned to the caller carries a stable code and a
\* message without a raw exception string: for an exception raised inside
\* an orchestrator, the text of the exception is no part of the response
\* description nor of the error message of the HTTP envelope.
C16_SemTextoDeExcecao ==
    \A c \in Coroutines :
        (pc[c].em \in {"return", "router", "respondido"} /\ loc[c].erro # "")
        => /\ \A k \in 1..Len(loc[c].resposta.response_description) :
                 loc[c].resposta.response_description[k] # loc[c].erro
           /\ \A k \in 1..Len(loc[c].http.message) : loc[c].http.message[k] # loc[c].erro

\* C17: in every operation family the provider shortcode sent to the
\* gateway comes from the server's configuration and never from the
\* client: the input_ServiceProviderCode of the payload is the configured
\* one, and it is the same for every value of the client's field.
C17_ShortcodeDoServidor ==
    \A c \in Coroutines :
        (loc[c].payload # EmptyDict /\ "input_ServiceProviderCode" \in DOMAIN loc[c].payload)
        => /\ loc[c].payload.input_ServiceProviderCode = MPESA_SERVICE_PROVIDER_CODE
           /\ \A outro \in ClientShortcodes(servico) :
                 payload_mpesa(servico, RefDaChamada(c), outro) = loc[c].payload

\* C18: in a CreditIn invocation the 'pending' record is on the dispatcher's
\* queue before the gateway call is issued (once the call has been made the
\* pending writer has run), and the 'success'/'failed' writer exists only
\* after the gateway call has returned.
C18_PendenteNaFilaAntesDoEnvio ==
    \A c \in Coroutines :
        (segue_tarefas /\ servico = "c2b" /\ pc[c].em \notin {"idle", "ready"})
        => /\ loc[c].enviado # <<>> => ~PorCorrer(NumeroDaChamada(c), {"pending"})
           /\ PorCorrer(NumeroDaChamada(c), {"success", "failed"}) => loc[c].enviado # <<>>

\* the statements of an invocation after its gateway call
DepoisDoEnvio == {"process", "log_result", "except", "return"}
\* the next statement of the invocation of coroutine c
Passo(c) ==
    \/ Process(c)
    \/ LogResult(c)
    \/ Except(c)
    \/ Return(c)
    \/ ReturnRouter(c)

\* C19: the caller-facing path never waits for audit persistence: at every
\* statement after the gateway call the invocation can take its next step,
\* up to and including its return, whatever the state of the audit path
\* (writers not yet run, records still queued, a drain asleep after a failed
\* attempt, every attempt failed).
C19_RetornoNuncaEspera ==
    \A c \in Coroutines :
        (segue_tarefas /\ pc[c].em \in DepoisDoEnvio) => ENABLED Passo(c)
\* an invocation is at its return while a record of an earlier invocation is
\* still queued, the drain sleeps after a failed attempt and nothing was ever
\* persisted
C19_Witness ==
    \E c \in Coroutines :
        /\ pc[c].em = "return"
        /\ PorCorrer(NumeroDaChamada(c), {"pending"})
        /\ dormindo # <<>>
        /\ db[0].fila_logs # <<>>
        /\ supabase = <<>>

\* a response without the reference the invocation resolved
SemReferencia(resposta) == [resposta EXCEPT !.third_party_reference = NoToken]
\* two invocations got the same request and the same gateway outcome
MesmaEntrada(a, b) == a.ref_cliente = b.ref_cliente /\ a.sdk = b.sdk
\* the responses computed so far: those returned and the one about to be
RespostasCalculadas ==
    {devolvidas[i] : i \in 1..Len(devolvidas)}
    \cup {Devolvida(c) : c \in {d \in Coroutines : pc[d].em = "return"}}
\* a writer ran to its end: registrar_transacao_async either put the record
\* on the queue of its DatabaseService, or wrote it to the local file with
\* the reason 'erro_fila' and left the queue alone; it raised nothing
RegistrarContido ==
    (correndo.tipo = "registrar" /\ correndo' = NoTarefa)
    => /\ levantadas' = levantadas
       /\ \/ /\ db'[correndo.inst].fila_logs = Append(db[correndo.inst].fila_logs, correndo.dados)
             /\ fallback' = fallback
          \/ /\ db' = db
             /\ fallback' = Append(fallback, salvar_fallback_local(correndo.dados, "erro_fila"))
             /\ tarefas' = tarefas

\* C20: audit failures are contained.  registrar_transacao_async never
\* raises to its caller: a failed insertion is written to the local fallback
\* file in the same step.  And the response of an orchestrator does not
\* depend on the persistence backend: invocations with the same request and
\* the same gateway outcome carry the same response (up to the reference
\* each resolved, which the response repeats), whatever the backend did.
C20_FalhasDeAuditoriaContidas ==
    /\ [][RegistrarContido]_vars
    /\ [](levantadas = <<>>)
    /\ [](\A a, b \in RespostasCalculadas :
             /\ a.resposta.third_party_reference \in {a.third_party_ref, a.ref_cliente}
             /\ MesmaEntrada(a, b) => SemReferencia(a.resposta) = SemReferencia(b.resposta))
\* an invocation is about to return the response an earlier one returned for
\* the same input; since then the insertion of one record failed and went
\* to the local file, and another record failed all its persistence attempts
C20_Witness ==
    \E c \in Coroutines :
        /\ pc[c].em = "return"
        /\ Len(devolvidas) = 1
        /\ MesmaEntrada(devolvidas[1], Devolvida(c))
        /\ \E i \in 1..Len(fallback) : fallback[i].motivo_fallback = "erro_fila"
        /\ \E i \in 1..Len(fallback) : fallback[i].motivo_fallback = "erro_supabase"

\* the drain tasks that exist: ready, running or waiting
Drenos ==
    {tarefas[i] : i \in {j \in 1..Len(tarefas) : tarefas[j].tipo = "dreno"}}
    \cup {dormindo[i] : i \in 1..Len(dormindo)}
    \cup (IF correndo.tipo = "dreno" THEN {correndo} ELSE {})
\* the lines of the local file written for the reason given
LinhasFallback(motivo) == {i \in 1..Len(fallback) : fallback[i].motivo_fallback = motivo}
\* a persistence attempt of the running drain fails in this step
TentativaFalhada ==
    /\ correndo.tipo = "dreno"
    /\ correndo.em = "tentativa"
    /\ correndo' # correndo
    /\ supabase' = supabase

Tentativa ==
    /\ correndo.tipo = "dreno"
    /\ correndo.em = "tentativa"
    /\ correndo' # correndo

\* C22: for each dequeued record the drain makes at most 3 attempts.  An
\* attempt that succeeds ends the work on the record, with no sleep and no
\* line in the local file.  After the failed attempt number n (1 or 2) the
\* drain sleeps 0.5 s times n (in tenths of a second: 5, then 10), and after
\* the third it does not sleep: it writes the record to the local file, which
\* it does at no other moment.
C22_TresTentativasComEspera ==
    /\ [](\A d \in Drenos :
             /\ d.tentativa \in 0..2
             /\ d.esperas = [n \in 1..d.tentativa |-> 5 * n])
    /\ [][Tentativa =>
            /\ supabase' # supabase
               => /\ supabase' = Append(supabase, correndo.dados)
                  /\ correndo'.em = "loop" /\ correndo'.dados = NoDados
                  /\ dormindo' = dormindo /\ fallback' = fallback
            /\ (supabase' = supabase /\ correndo.tentativa < 2)
               => /\ correndo' = NoTarefa
                  /\ dormindo' = Append(dormindo,
                                        [correndo EXCEPT !.tentativa = @ + 1,
                                                         !.esperas = Append(@, 5 * (correndo.tentativa + 1))])
                  /\ fallback' = fallback
            /\ fallback' # fallback
               => /\ supabase' = supabase
                  /\ correndo.tentativa = 2 /\ correndo.esperas = <<5, 10>>
                  /\ fallback' = Append(fallback, [motivo_fallback |-> "erro_supabase",
                                                   dados |-> correndo.dados])
                  /\ correndo'.em = "loop" /\ correndo'.dados = NoDados
                  /\ dormindo' = dormindo]_vars
\* a drain sleeps after the second failed attempt on its record: it has
\* waited 0.5 s and now waits 1.0 s
C22_Witness ==
    \E k \in 1..Len(dormindo) :
        /\ dormindo[k].em = "tentativa"
        /\ dormindo[k].tentativa = 2
        /\ dormindo[k].esperas = <<5, 10>>
        /\ dormindo[k].dados = RegistoDreno(1)

\* a drain task has run its first statement and not yet ended
Iniciado(tarefa) == tarefa.tipo = "dreno" /\ tarefa.em # "inicio"
\* the number of drain tasks of the instance started and not yet finished
DrenosIniciados ==
    Cardinality({i \in 1..Len(tarefas) : Iniciado(tarefas[i])})
    + Cardinality({i \in 1..Len(dormindo) : Iniciado(dormindo[i])})
    + (IF Iniciado(correndo) THEN 1 ELSE 0)
\* the number of drain tasks created and not yet started
DrenosPorIniciar ==
    Cardinality({i \in 1..Len(tarefas) : tarefas[i].tipo = "dreno" /\ tarefas[i].em = "inicio"})
    + (IF correndo.tipo = "dreno" /\ correndo.em = "inicio" THEN 1 ELSE 0)

\* C23: one DatabaseService has a single drain worker: at no time are two
\* _processar_fila_logs tasks started and not yet finished, and a writer
\* creates a drain task only when no drain task is running.
C23_UmSoDreno ==
    /\ [](DrenosIniciados <= 1)
    /\ [][DrenosPorIniciar' > DrenosPorIniciar => DrenosIniciados = 0]_vars

\* record number n is on the queue of the DatabaseService
NaFila(n) == \E i \in 1..Len(db[0].fila_logs) : db[0].fila_logs[i] = RegistoDreno(n)
\* record number n is a row of the store or a line of the local file
Guardado(n) ==
    \/ \E i \in 1..Len(supabase) : supabase[i] = RegistoDreno(n)
    \/ \E i \in 1..Len(fallback) : fallback[i].dados = RegistoDreno(n)

C25_RecusadoCom400Ou401 ==
    /\ [](\A c \in Coroutines :
            LET falha_de_autenticacao == req[c].x_api_key \notin {API_KEY, Nulo}
                falha_de_validacao ==
                    /\ req[c].x_api_key = API_KEY
                    /\ req[c].valor # <<>>
                    /\ req[c].valor[1] <= 0
                    /\ servico \in CreationFamilies \cup {"reversal"}
            IN  falha_de_autenticacao \/ falha_de_validacao =>
                   /\ pc[c].em \in {"entrada", "rejeitado"}
                   /\ loc[c].enviado = <<>>
                   /\ loc[c].logs = <<>>
                   /\ loc[c].third_party_ref = NoToken
                   /\ pc[c].em = "rejeitado" =>
                        loc[c].http.status_code = IF falha_de_autenticacao THEN 401 ELSE 400)
    /\ [][\A c \in Coroutines :
            pc[c].em = "entrada" /\ pc'[c].em = "rejeitado" =>
               /\ referencias_utilizadas' = referencias_utilizadas
               /\ tarefas' = tarefas
               /\ db' = db
               /\ hist' = hist]_vars

\* C26: for every endpoint and every normalized response with code c, the
\* envelope is returned with success=true exactly when
\* get_mpesa_code_info(c).success is true, and otherwise the endpoint fails
\* with HTTP status get_mpesa_code_info(c).http_status and an error object
\* whose code is c and whose message is the response description.
C26_EnvelopeSegueOTradutor ==
    \A c \in Coroutines :
        pc[c].em = "respondido"
        => LET result == loc[c].resposta
               info == get_mpesa_code_info(result.response_code)
               http == loc[c].http
           IN /\ http.success <=> info.success
              /\ ~info.success =>
                   /\ http.status_code = info.http_status
                   /\ http.code = result.response_code
                   /\ http.message = result.response_description

\* the name query answered a response with code INS-2006: status 422 and
\* the code and description of the response in the error object
C26_Witness ==
    \E c \in Coroutines :
        /\ pc[c].em = "respondido"
        /\ servico = "query_customer"
        /\ loc[c].resposta.response_code = "INS-2006"
        /\ ~loc[c].http.success
        /\ loc[c].http.status_code = 422
        /\ loc[c].http.code = "INS-2006"
        /\ loc[c].http.message = loc[c].resposta.response_description

\* C27: execute_request selects transport per operation type: the two query
\* types use GET with all parameters serialized into the request path as a
\* query string, reversal uses PUT with parameters in the body, and
\* c2b/b2c/b2b use POST with parameters in the body; each of the six
\* operation types uses its own configured port, and any unrecognised type
\* is treated as c2b (C2B port, POST).
C27_TransportePorTipo ==
    LET Porta == [fam \in Families |->
                    CASE fam = "c2b" -> "MPESA_API_PORT_C2B"
                      [] fam = "b2c" -> "MPESA_API_PORT_B2C"
                      [] fam = "b2b" -> "MPESA_API_PORT_B2B"
                      [] fam = "query_customer" -> "MPESA_API_PORT_QUERY"
                      [] fam = "query_transaction" -> "MPESA_API_PORT_QUERY_TXN"
                      [] fam = "reversal" -> "MPESA_API_PORT_REVERSAL"]
        NoCorpo(ctx, c) ==
            /\ ctx.path = <<Endpoint(servico)>>
            /\ ctx.parameters = loc[c].payload
    IN  \A c \in Coroutines :
           loc[c].contexto # NoContexto
           => LET ctx == loc[c].contexto IN
              /\ servico \in {"query_customer", "query_transaction"} =>
                   /\ ctx.method_type = "GET"
                   /\ ctx.path = <<Endpoint(servico), "?", loc[c].payload>>
                   /\ ctx.parameters = EmptyDict
              /\ servico = "reversal" => ctx.method_type = "PUT" /\ NoCorpo(ctx, c)
              /\ servico \in CreationFamilies => ctx.method_type = "POST" /\ NoCorpo(ctx, c)
              /\ servico \in Families =>
                   /\ ctx.port = Porta[servico]
                   /\ \A fam \in Families \ {servico} : ctx.port # Porta[fam]
              /\ lower(servico) \notin Families =>
                   /\ ctx.port = Porta["c2b"]
                   /\ ctx.method_type = "POST"
                   /\ NoCorpo(ctx, c)

\* a reversal went out by PUT on the reversal port with its parameters in
\* the body
C27_Witness ==
    \E c \in Coroutines :
        /\ servico = "reversal"
        /\ loc[c].contexto.method_type = "PUT"
        /\ loc[c].contexto.port = "MPESA_API_PORT_REVERSAL"
        /\ loc[c].contexto.parameters = loc[c].payload
        /\ "input_ThirdPartyReference" \in DOMAIN loc[c].payload
        /\ loc[c].enviado # <<>>

\* C28: for the name-query, status-query and reversal families the
\* client-supplied third_party_reference is used unchanged: the token sent
\* to the gateway and the token in every returned response (success, gateway
\* failure or internal error) equal the request's reference, no token is
\* generated, and no used-set is read or modified, even when the same
\* reference is submitted repeatedly.
C28_ReferenciaDoClienteInalterada ==
    servico \in QueryFamilies
    => /\ \A i \in Instances : referencias_utilizadas[i] = {}
       /\ \A c \in Coroutines :
            /\ \A k \in 1..Len(loc[c].enviado) : loc[c].enviado[k] = req[c].ref_cliente
            /\ loc[c].third_party_ref = NoToken
            /\ loc[c].gerada_em = -1
            /\ loc[c].ramo = ""
            /\ ~loc[c].estava_usada
            /\ pc[c].em \in {"return", "router", "respondido"}
                 => loc[c].resposta.third_party_reference = req[c].ref_cliente
       /\ \A i \in 1..Len(hist) :
            /\ hist[i].enviado = <<hist[i].ref_cliente>>
            /\ hist[i].third_party_ref = NoToken
            /\ hist[i].ramo = ""

\* a reversal is answered from its except branch with the reference of the
\* request, which an earlier reversal had already submitted and sent
C28_Witness ==
    \E c \in Coroutines :
        /\ servico = "reversal"
        /\ Len(hist) = 1
        /\ hist[1].ref_cliente = req[c].ref_cliente
        /\ hist[1].enviado = <<req[c].ref_cliente>>
        /\ pc[c].em = "respondido"
        /\ loc[c].erro # ""
        /\ loc[c].enviado = <<req[c].ref_cliente>>
        /\ loc[c].resposta.third_party_reference = req[c].ref_cliente
        /\ loc[c].resposta.response_code = "INS-999"

\* C29: the terminal audit record mirrors the response returned to the
\* caller: for every operation family and every gateway outcome, the
\* record's response_code and third-party reference equal those of the
\* returned response, and its status is 'success' exactly when the endpoint
\* returns the envelope with success=true (and 'failed' otherwise).
C29_RegistoFinalEspelhaAResposta ==
    \A c \in Coroutines :
        pc[c].em = "respondido"
        => LET registo == loc[c].logs[Len(loc[c].logs)] IN
           /\ registo.tarefa \in {"resultado", "erro"}
           /\ registo.response_code = loc[c].resposta.response_code
           /\ registo.third_party_reference = loc[c].resposta.third_party_reference
           /\ registo.status = IF loc[c].http.success THEN "success" ELSE "failed"

\* C30: the dispatcher gives no ordering guarantee across records: there is
\* a reachable execution of one DatabaseService in which record A is
\* enqueued before record B, a persistence attempt for A fails and is
\* retried, and B is persisted to the store before A.  Records are numbered
\* in the order their writers enqueue them.  The store departs from that
\* order only through retries: a record that reaches the store after a
\* record enqueued later is stored by an attempt that follows a failed one
\* and its sleep.  The witness is such an execution.
C30_ForaDeOrdemSoComRetry ==
    [][\A n \in 1..MaxRegistos :
          (/\ supabase' = Append(supabase, RegistoDreno(n))
           /\ \E k \in 1..Len(supabase), m \in (n + 1)..MaxRegistos : supabase[k] = RegistoDreno(m))
          => /\ correndo.dados = RegistoDreno(n)
             /\ correndo.tentativa >= 1
             /\ correndo.esperas # <<>>]_vars

\* both records were stored, none went to the local file, and record 2 is
\* in the store before record 1, which was enqueued first
C30_Witness ==
    /\ supabase = <<RegistoDreno(2), RegistoDreno(1)>>
    /\ fallback = <<>>
    /\ db[0].total_logs_processados = 2
    /\ db[0].total_logs_falha = 0

\* C31: for CreditIn and CreditOut, a gateway reply with status 201 is
\* handled on the success path exactly like a reply with status 200:
\* identifiers and response code are read from the body, and a body without
\* output_ResponseCode yields response code 'INS-0'.
C31_Status201ComoStatus200 ==
    \A c \in Coroutines :
        (/\ servico \in {"c2b", "b2c"}
         /\ pc[c].em \in {"return", "router", "respondido"}
         /\ loc[c].sdk.tipo = "reply"
         /\ loc[c].sdk.status_code = 201
         /\ loc[c].erro = "")
        => /\ loc[c].resposta =
                processar_resposta_c2b(execute_request(servico, [loc[c].sdk EXCEPT !.status_code = 200]),
                                       loc[c].third_party_ref)
           /\ loc[c].sdk.body = BodyDict(EmptyDict) => loc[c].resposta.response_code = "INS-0"

\* C32: a name query whose gateway reply has status 200 and result code '0'
\* (the success code the name-query service itself uses, including as its
\* default when the body has no output_ResultCode) is returned by
\* GET /query-customer as an envelope with success=true carrying the
\* customer name.
C32_ConsultaDeNomeComCodigoZero ==
    \A c \in Coroutines :
        (/\ servico = "query_customer"
         /\ pc[c].em = "respondido"
         /\ loc[c].sdk.tipo = "reply"
         /\ loc[c].sdk.status_code = 200
         /\ loc[c].erro = ""
         /\ loc[c].resposta.response_code = "0")
        => /\ loc[c].http.success
           /\ loc[c].http.status_code = RotaStatus(servico)
           /\ loc[c].resposta.extra = Get(loc[c].sdk.body.dados, "output_CustomerName", Nulo)

\* C33: every orchestrator invocation schedules exactly one terminal audit
\* record (status 'success' or 'failed', the latter also on the exception
\* path) and at most one 'pending' record; when both exist, the pending
\* record is enqueued on the dispatcher before the terminal one (the writer
\* of the terminal record runs only when the pending writer of its
\* invocation has run), and an exception raised before the pending write was
\* scheduled yields only the error record.
C33_UmRegistoFinalPorInvocacao ==
    /\ [](\A c \in Coroutines :
            LET logs == loc[c].logs
                finais == {k \in 1..Len(logs) : logs[k].status \in {"success", "failed"}}
                pendentes == {k \in 1..Len(logs) : logs[k].status = "pending"}
            IN /\ Cardinality(pendentes) <= 1
               /\ Cardinality(finais) <= 1
               /\ \A k \in finais : \A j \in pendentes : j < k
               /\ pc[c].em = "return" =>
                    /\ Cardinality(finais) = 1
                    /\ logs[Len(logs)].tarefa = (IF loc[c].erro # "" THEN "erro" ELSE "resultado")
                    /\ loc[c].erro # "" => logs[Len(logs)].status = "failed"
                    /\ pendentes = {} => logs = <<logs[1]>> /\ logs[1].tarefa = "erro")
    /\ [][(/\ correndo.tipo = "registrar"
           /\ correndo.dados.status \in {"success", "failed"}
           /\ correndo' = NoTarefa)
          => ~PorCorrer(correndo.chamada, {"pending"})]_vars

\* the writer of the error record of an invocation that took its except
\* branch runs while the pending record of the same invocation is on the
\* queue
C33_Witness ==
    /\ correndo.tipo = "registrar"
    /\ correndo.dados.tarefa = "erro"
    /\ correndo.dados.status = "failed"
    /\ \E k \in 1..Len(db[correndo.inst].fila_logs) :
         /\ db[correndo.inst].fila_logs[k].status = "pending"
         /\ db[correndo.inst].fila_logs[k].third_party_reference = correndo.dados.third_party_reference

\* C34: conservation of audit records in one DatabaseService: in every
\* reachable state, the number of records successfully enqueued equals
\* logs_na_fila + total_processados + total_falhas + the number of records
\* currently held by a drain task between dequeue and outcome; both counters
\* never decrease and each record increments exactly one of them exactly
\* once.  (A record was successfully enqueued when its writer has run and
\* did not send it to the local file for the reason 'erro_fila'.)
C34_ConservacaoDosRegistos ==
    /\ [](LET PorEscrever(n) ==
                  \/ \E i \in 1..Len(tarefas) :
                        tarefas[i].tipo = "registrar" /\ tarefas[i].dados = RegistoDreno(n)
                  \/ correndo.tipo = "registrar" /\ correndo.dados = RegistoDreno(n)
              ErroFila(n) ==
                  \E i \in LinhasFallback("erro_fila") : fallback[i].dados = RegistoDreno(n)
              enfileirados == {n \in 1..criadas : ~PorEscrever(n) /\ ~ErroFila(n)}
              retidos == {n \in 1..criadas : \E d \in Drenos : d.dados = RegistoDreno(n)}
              processados == {n \in 1..criadas : \E i \in 1..Len(supabase) : supabase[i] = RegistoDreno(n)}
              falhados == {n \in 1..criadas :
                             \E i \in LinhasFallback("erro_supabase") : fallback[i].dados = RegistoDreno(n)}
          IN  /\ Cardinality(enfileirados) =
                    Len(db[0].fila_logs) + db[0].total_logs_processados + db[0].total_logs_falha
                    + Cardinality(retidos)
              /\ db[0].total_logs_processados = Cardinality(processados)
              /\ db[0].total_logs_processados = Len(supabase)
              /\ db[0].total_logs_falha = Cardinality(falhados)
              /\ db[0].total_logs_falha = Cardinality(LinhasFallback("erro_supabase"))
              /\ processados \cap falhados = {}
              /\ retidos \cap (processados \cup falhados) = {}
              /\ \A n \in 1..criadas : NaFila(n) => n \notin retidos \cup processados \cup falhados)
    /\ [][/\ db'[0].total_logs_processados >= db[0].total_logs_processados
          /\ db'[0].total_logs_falha >= db[0].total_logs_falha
          /\ db'[0].total_logs_processados + db'[0].total_logs_falha
               <= db[0].total_logs_processados + db[0].total_logs_falha + 1]_vars

\* of three records enqueued one is stored, one is held by a drain that
\* sleeps before its next attempt, and one is on the queue
C34_Witness ==
    /\ criadas = 3
    /\ Len(db[0].fila_logs) = 1
    /\ db[0].total_logs_processados = 1
    /\ db[0].total_logs_falha = 0
    /\ fallback = <<>>
    /\ \E k \in 1..Len(dormindo) : dormindo[k].dados # NoDados /\ dormindo[k].tentativa >= 1
    /\ \A i \in 1..Len(tarefas) : tarefas[i].tipo # "registrar"
    /\ correndo.tipo # "registrar"

\* C35: no record is stranded: whenever no drain task of the instance is
\* running and none has been created but not yet started, the queue is
\* empty; a drain task never finishes, by the end of its loop or by the
\* break of its idle timeout, while a record remains queued.
C35_NenhumRegistoEncalhado ==
    /\ [](DrenosIniciados = 0 /\ DrenosPorIniciar = 0 => db[0].fila_logs = <<>>)
    /\ [][DrenosIniciados' < DrenosIniciados => db'[0].fila_logs = <<>>]_vars

\* C36: the flag 'processando' of the snapshot is accurate: in every
\* reachable state it is true exactly when a drain task of the instance has
\* started and not yet finished, so a false flag means no drain is active.
C36_ProcessandoExacto == (db[0].processando <=> DrenosIniciados >= 1)

\* C37: in each of the six endpoints an exception other than HTTPException,
\* raised while the service is constructed or the request handled, becomes
\* an HTTP 500 response with error code 'INTERNAL_ERROR' and the message
\* 'Internal server error'; an HTTPException leaves the handler unchanged.
C37_ExcecaoViraErroInterno ==
    \A c \in Coroutines :
      /\ pc[c].em = "erro_interno" =>
            /\ loc[c].http.status_code = 500
            /\ ~loc[c].http.success
            /\ loc[c].http.code = "INTERNAL_ERROR"
            /\ loc[c].http.message = <<"Internal server error">>
      /\ pc[c].em = "respondido" /\ ~loc[c].http.success =>
            loc[c].http = responder_endpoint(servico, loc[c].resposta)

====
